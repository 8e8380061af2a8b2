----------------------------- MODULE TcpclProofs -----------------------------
(***************************************************************************)
(* What TcpclSession guarantees for every scenario.  Type correctness      *)
(* holds for all of them; that nothing panics, nothing is rejected and     *)
(* every transfer arrives exactly once holds where an end whose socket may *)
(* block receives no transfers (Unblocked): acknowledgements then never    *)
(* wait in a buffer.  The run cancel shows what happens otherwise.         *)
(***************************************************************************)
EXTENDS TcpclSession, SequenceTheorems, TLAPS

-------------------------------------------------------------------------------
(* Types *)

Acks == [id : Nat, len : Nat]
Trackers == [id : Nat, len : Nat, pos : Nat, acked : Nat]
PlainTypes == {"Keepalive", "ContactHeader", "SessInit", "SessTerm", "MsgReject"}

Messages == [type : PlainTypes]
            \cup [type : {"XferAck"}, id : Nat, len : Nat]
            \cup [type : {"XferSegment"}, id : Nat, data : Nat \X Nat, end : BOOLEAN]

Bundles(x) == scenario.bundles[x]
Results(b) == [1..Len(b) -> {"none", "ok", "too large"}]

Sessions(b) ==
  [state : States, nested : Nat, tracker : Trackers \cup {Nothing},
   ack : Acks \cup {Nothing}, terminating : BOOLEAN, last_used_transfer_id : Nat,
   buffer : Seq(Messages), flushing : BOOLEAN, receiving : Transfers \cup {Nothing},
   passing : Transfers \cup {Nothing}, request : Nat, established : BOOLEAN,
   quiet : Nat, outcome : {"running", "closed", "failed", "panicked"}, results : Results(b)]

Agents == [todo : Seq(Nat), waiting : BOOLEAN, close : BOOLEAN, up : BOOLEAN]

ChannelsInv ==
  /\ agent \in [Ends -> Agents]
  /\ send \in [Ends -> Seq(Nat)] /\ wire \in [Ends -> Seq(Messages)]
  /\ receive \in [Ends -> Seq(Transfers)] /\ stored \in [Ends -> Seq(Transfers)]
  /\ \A x \in Ends : Len(send[x]) <= SendCapacity /\ Len(receive[x]) <= ReceiveCapacity

Segmenting == {"SendXferSegments", "SendXferSegmentsAndAck"}
Acking == {"SendXferAck", "SendXferSegmentsAndAck"}

\* The contents of the states of the state machine.
StateInv(s, b) ==
  /\ s.state \in Segmenting <=> s.tracker # Nothing
  /\ (s.state \in Acking \/ s.passing # Nothing) <=> s.ack # Nothing
  /\ s.passing # Nothing => s.state \in {"SessionEstablished", "SendXferSegments"}
  /\ s.tracker # Nothing =>
       /\ s.tracker.acked <= s.tracker.pos /\ s.tracker.pos <= s.tracker.len
       /\ s.tracker.acked < s.tracker.len
       /\ s.tracker.id = s.last_used_transfer_id - 1
       /\ s.request # 0 /\ s.tracker.len = b[s.request]
  /\ s.state \in HandshakeStates \cup {"SessionEstablished", "SendXferAck"} => s.request = 0
  /\ s.request # 0 => s.request \in DOMAIN s.results /\ s.results[s.request] = "none"
  /\ s.flushing => s.nested > 0 \/ s.state \notin Waits \cup {"ConnectionClose"}
  /\ s.state = "WaitSessTerm" => s.terminating
  /\ s.state \in HandshakeStates =>
       s.nested = 0 /\ s.buffer = <<>> /\ ~s.flushing /\ ~s.established

\* The bundles still to be taken, q: in order, unanswered, after the current one.
QueueInv(s, q) ==
  /\ \A i \in 1..Len(q) : /\ q[i] \in DOMAIN s.results
                          /\ s.results[q[i]] = "none" /\ s.request < q[i]
  /\ \A i, j \in 1..Len(q) : i < j => q[i] < q[j]

Queue(x) == send[x] \o agent[x].todo

\* The limits; and only the messages of a narrow end wait in its buffer.
LimitsInv(s, narrow) ==
  /\ s.nested <= MaxNested /\ Len(s.buffer) <= MaxBuffer
  /\ narrow \/ (s.buffer = <<>> /\ ~s.flushing)

SessionInv(x) ==
  /\ session[x] \in Sessions(Bundles(x)) /\ StateInv(session[x], Bundles(x))
  /\ QueueInv(session[x], Queue(x)) /\ LimitsInv(session[x], x \in scenario.narrow)

TypeInv ==
  /\ scenario \in Scenarios /\ session = [x \in Ends |-> session[x]]
  /\ ChannelsInv /\ \A x \in Ends : SessionInv(x)

-------------------------------------------------------------------------------
(* The handshake *)

\* What end x has sent and its peer has not read.
Pipe(x) == wire[x] \o session[x].buffer

HandshakeTypes == {"ContactHeader", "SessInit"}
OnlyHas(p, type) == Len(p) = 1 /\ p[1].type = type

\* a and p are the states of the active and the passive end, u and v what they
\* have sent.
Joint(a, p, u, v) ==
  \/ /\ a = "ActiveSendContactHeader" /\ p = "PassiveWaitContactHeader"
     /\ u = <<>> /\ v = <<>>
  \/ /\ a = "ActiveWaitContactHeader" /\ p = "PassiveWaitContactHeader"
     /\ OnlyHas(u, "ContactHeader") /\ v = <<>>
  \/ /\ a = "ActiveWaitContactHeader" /\ p = "PassiveSendContactHeader"
     /\ u = <<>> /\ v = <<>>
  \/ /\ a = "ActiveWaitContactHeader" /\ p = "PassiveWaitSessInit"
     /\ u = <<>> /\ OnlyHas(v, "ContactHeader")
  \/ /\ a = "ActiveSendSessInit" /\ p = "PassiveWaitSessInit"
     /\ u = <<>> /\ v = <<>>
  \/ /\ a = "ActiveWaitSessInit" /\ p = "PassiveWaitSessInit"
     /\ OnlyHas(u, "SessInit") /\ v = <<>>
  \/ /\ a = "ActiveWaitSessInit" /\ p = "PassiveSendSessInit"
     /\ u = <<>> /\ v = <<>>
  \/ /\ a = "ActiveWaitSessInit" /\ p \notin HandshakeStates
     /\ u = <<>> /\ v # <<>> /\ v[1].type = "SessInit"
     /\ \A i \in 2..Len(v) : v[i].type \notin HandshakeTypes
  \/ /\ a \notin HandshakeStates /\ p \notin HandshakeStates
     /\ \A i \in 1..Len(u) : u[i].type \notin HandshakeTypes
     /\ \A i \in 1..Len(v) : v[i].type \notin HandshakeTypes

HandshakeInv ==
  Joint(session["active"].state, session["passive"].state, Pipe("active"), Pipe("passive"))

-------------------------------------------------------------------------------
(* Transfers *)

Over(s) == s.state \in {"SendSessTerm", "WaitSessTerm", "SendMsgReject", "ConnectionClose"}

Segment(m) == m.type = "XferSegment"
Acknowledges(m) == m.type = "XferAck"
Bundle(t) == t.data[1][1]
Units(n, k) == [i \in 1..k |-> <<n, i>>]

\* The segments in p belong to the request of the sender s and come after the r
\* that the receiver t has, without a gap as long as t may take them.
SegmentsInv(s, t, p, b, r) ==
  /\ \A i \in 1..Len(p) : Segment(p[i]) =>
       /\ s.request # 0 /\ p[i].id = s.last_used_transfer_id - 1
       /\ p[i].data[1] = s.request /\ r < p[i].data[2] /\ p[i].data[2] <= b[s.request]
       /\ p[i].end <=> p[i].data[2] = b[s.request]
       /\ s.tracker # Nothing => p[i].data[2] <= s.tracker.pos
  /\ \A i, j \in 1..Len(p) : (Segment(p[i]) /\ Segment(p[j]) /\ i < j)
       => p[i].data[2] < p[j].data[2]
  /\ ~Over(t) => \A j \in 1..Len(p) : (Segment(p[j]) /\ p[j].data[2] > r + 1) =>
       \E i \in 1..(j - 1) : Segment(p[i]) /\ p[i].data[2] = p[j].data[2] - 1
  /\ s.tracker # Nothing => r <= s.tracker.pos
  /\ (~Over(t) /\ s.tracker # Nothing /\ r < s.tracker.pos) =>
       \E i \in 1..Len(p) : Segment(p[i]) /\ p[i].data[2] = s.tracker.pos

\* The acknowledgements in q, and the one t is about to send, are for the request
\* of s, and each for more than the one before.
AcksInv(s, t, q, r) ==
  /\ \A i \in 1..Len(q) : Acknowledges(q[i]) =>
       /\ s.request # 0 /\ q[i].id = s.last_used_transfer_id - 1
       /\ 1 <= q[i].len /\ q[i].len <= r
       /\ t.ack # Nothing => q[i].len < t.ack.len
  /\ \A i, j \in 1..Len(q) : (Acknowledges(q[i]) /\ Acknowledges(q[j]) /\ i < j)
       => q[i].len < q[j].len
  /\ t.ack # Nothing => /\ s.request # 0 /\ t.ack.id = s.last_used_transfer_id - 1
                        /\ t.ack.len = r /\ 1 <= r

\* What t has of the request of s.
ProgressInv(s, t, g, b, r) ==
  /\ s.request = 0 => r = 0 /\ t.receiving = Nothing /\ t.passing = Nothing
  /\ t.receiving # Nothing =>
       /\ 1 <= r /\ r < b[s.request] /\ t.passing = Nothing
       /\ t.receiving.id = s.last_used_transfer_id - 1
       /\ t.receiving.data = Units(s.request, r)
  /\ t.passing # Nothing => /\ r = b[s.request]
                            /\ t.passing.data = Units(s.request, r)
  /\ (s.request # 0 /\ t.receiving = Nothing /\ t.passing = Nothing) =>
       IF \E i \in 1..Len(g) : Bundle(g[i]) = s.request THEN r = b[s.request] ELSE r = 0
  /\ (s.request # 0 /\ (t.receiving # Nothing \/ t.passing # Nothing)) =>
       \A i \in 1..Len(g) : Bundle(g[i]) # s.request

\* The transfers g that have arrived are whole, in order and older than the
\* bundles q still to be taken; what counts as sent is among them.
ArrivedInv(s, g, b, q) ==
  /\ \A i \in 1..Len(g) : /\ Bundle(g[i]) \in 1..Len(b)
                          /\ g[i].data = Units(Bundle(g[i]), b[Bundle(g[i])])
                          /\ s.request # 0 => Bundle(g[i]) <= s.request
                          /\ \A j \in 1..Len(q) : Bundle(g[i]) < q[j]
  /\ \A i, j \in 1..Len(g) : i < j => Bundle(g[i]) < Bundle(g[j])
  /\ \A n \in DOMAIN s.results : s.results[n] = "ok" =>
       \E i \in 1..Len(g) : Bundle(g[i]) = n

TransferInv(s, t, p, q, g, b, w, r) ==
  /\ SegmentsInv(s, t, p, b, r) /\ AcksInv(s, t, q, r)
  /\ ProgressInv(s, t, g, b, r) /\ ArrivedInv(s, g, b, w)

DirectionInv(x) ==
  \E r \in Nat : TransferInv(session[x], session[Peer(x)], Pipe(x), Pipe(Peer(x)),
                             Received(Peer(x)), Bundles(x), Queue(x), r)

\* An end whose socket may block receives no transfers.
Unblocked == \A x \in scenario.narrow : scenario.bundles[Peer(x)] = <<>>

RejectInv == \A x \in Ends : /\ session[x].outcome # "panicked"
                             /\ session[x].state = "SendMsgReject" => session[x].terminating

\* The transfers in both directions, and what is rejected.
Transferring == Unblocked => (\A x \in Ends : DirectionInv(x)) /\ RejectInv

IInv == TypeInv /\ HandshakeInv /\ Transferring

-------------------------------------------------------------------------------
(* The operators of the state machine *)

\* Nothing is neither a transfer nor an acknowledgement.
LEMMA NothingIs ==
  Nothing \notin Trackers /\ Nothing \notin Acks /\ Nothing \notin Transfers
<1>1. Nothing.id = -1
  BY DEF Nothing
<1> QED
  BY <1>1 DEF Trackers, Acks, Transfers

\* A keepalive goes first.
LEMMA KeepaliveFirst ==
  ASSUME NEW s, s.nested > 0, s.nested \in Nat
  PROVE  MessageOf(s) = [type |-> "Keepalive"]
         /\ send_complete(s) = [s EXCEPT !.nested = @ - 1]
<1>1. s.nested # 0
  OBVIOUS
<1> QED
  BY <1>1, Zenon DEF MessageOf, send_complete

\* What is sent in the states of the handshake.
LEMMA HandshakeSends ==
  ASSUME NEW s, s.nested = 0
  PROVE  /\ s.state = "ActiveSendContactHeader" =>
              /\ MessageOf(s) = [type |-> "ContactHeader"]
              /\ send_complete(s) = [s EXCEPT !.state = "ActiveWaitContactHeader"]
         /\ s.state = "PassiveSendContactHeader" =>
              /\ MessageOf(s) = [type |-> "ContactHeader"]
              /\ send_complete(s) = [s EXCEPT !.state = "PassiveWaitSessInit"]
         /\ s.state = "ActiveSendSessInit" =>
              /\ MessageOf(s) = [type |-> "SessInit"]
              /\ send_complete(s) = [s EXCEPT !.state = "ActiveWaitSessInit"]
         /\ s.state = "PassiveSendSessInit" =>
              /\ MessageOf(s) = [type |-> "SessInit"]
              /\ send_complete(s) = [s EXCEPT !.state = "SessionEstablished"]
<1>1. ~(s.nested > 0)
  OBVIOUS
<1> QED
  BY <1>1, Zenon DEF MessageOf, send_complete

\* What is sent during transfers; sending a segment changes the state only when
\* everything is acknowledged.
LEMMA TransferSends ==
  ASSUME NEW s, s.nested = 0
  PROVE  /\ s.state = "SendXferAck" =>
              /\ MessageOf(s) = [type |-> "XferAck", id |-> s.ack.id, len |-> s.ack.len]
              /\ send_complete(s) = [s EXCEPT !.state = "SessionEstablished", !.ack = Nothing]
         /\ s.state = "SendXferSegmentsAndAck" =>
              /\ MessageOf(s) = [type |-> "XferAck", id |-> s.ack.id, len |-> s.ack.len]
              /\ send_complete(s) = [s EXCEPT !.state = "SendXferSegments", !.ack = Nothing]
         /\ s.state = "SendXferSegments" =>
              /\ MessageOf(s) = [type |-> "XferSegment", id |-> s.tracker.id,
                                 data |-> <<s.request, s.tracker.pos + 1>>,
                                 end |-> s.tracker.pos + 1 = s.tracker.len]
              /\ s.tracker.acked # s.tracker.len => send_complete(s) = s
<1>1. ~(s.nested > 0)
  OBVIOUS
<1>2. s.state = "SendXferAck" \/ s.state = "SendXferSegmentsAndAck" =>
        MessageOf(s) = [type |-> "XferAck", id |-> s.ack.id, len |-> s.ack.len]
  BY <1>1, Zenon DEF MessageOf
<1>3. s.state = "SendXferAck" =>
        send_complete(s) = [s EXCEPT !.state = "SessionEstablished", !.ack = Nothing]
  BY <1>1, Zenon DEF send_complete
<1>4. s.state = "SendXferSegmentsAndAck" =>
        send_complete(s) = [s EXCEPT !.state = "SendXferSegments", !.ack = Nothing]
  BY <1>1, Zenon DEF send_complete
<1>5. s.state = "SendXferSegments" =>
        MessageOf(s) = [type |-> "XferSegment", id |-> s.tracker.id,
                        data |-> <<s.request, s.tracker.pos + 1>>,
                        end |-> s.tracker.pos + 1 = s.tracker.len]
  BY <1>1, Zenon DEF MessageOf
<1>6. s.state = "SendXferSegments" /\ s.tracker.acked # s.tracker.len =>
        send_complete(s) = s
  BY <1>1, Zenon DEF send_complete
<1> QED
  BY <1>2, <1>3, <1>4, <1>5, <1>6, Zenon

\* What is sent to end the session.
LEMMA ClosingSends ==
  ASSUME NEW s, s.nested = 0
  PROVE  /\ s.state = "SendSessTerm" =>
              /\ MessageOf(s) = [type |-> "SessTerm"]
              /\ send_complete(s) =
                   [s EXCEPT !.state = IF s.terminating THEN "ConnectionClose"
                                       ELSE "WaitSessTerm",
                             !.terminating = TRUE]
         /\ s.state = "SendMsgReject" =>
              /\ MessageOf(s) = [type |-> "MsgReject"]
              /\ send_complete(s) = [s EXCEPT !.state = "ConnectionClose",
                                              !.terminating = TRUE]
<1>1. ~(s.nested > 0)
  OBVIOUS
<1> QED
  BY <1>1, Zenon DEF MessageOf, send_complete

\* The answer to a SessTerm.
LEMMA TermTaken ==
  ASSUME NEW s
  PROVE  /\ s.state = "WaitSessTerm" => TakeTerm(s) = [s EXCEPT !.state = "ConnectionClose"]
         /\ s.state \in {"SessionEstablished", "SendXferSegments"} =>
              TakeTerm(s) = [s EXCEPT !.state = "SendSessTerm", !.terminating = TRUE,
                                      !.tracker = Nothing]
         /\ s.state \in HandshakeStates => TakeTerm(s) = Reject(s)
<1>1. s.state = "WaitSessTerm" => TakeTerm(s) = [s EXCEPT !.state = "ConnectionClose"]
  BY Zenon DEF TakeTerm, HandshakeStates
<1>2. s.state \in {"SessionEstablished", "SendXferSegments"} =>
        TakeTerm(s) = [s EXCEPT !.state = "SendSessTerm", !.terminating = TRUE,
                                !.tracker = Nothing]
  BY Zenon DEF TakeTerm, HandshakeStates
<1>3. s.state \in HandshakeStates => TakeTerm(s) = Reject(s)
  BY Zenon DEF TakeTerm, HandshakeStates
<1> QED
  BY <1>1, <1>2, <1>3

-------------------------------------------------------------------------------
(* One turn of the loop keeps the contents of the states *)

\* What holds of a session before the head of the loop: a transfer may just have
\* ended.
Prepared(s, b) ==
  /\ s.state \in Segmenting <=> s.tracker # Nothing
  /\ (s.state \in Acking \/ s.passing # Nothing) <=> s.ack # Nothing
  /\ s.passing # Nothing => s.state \in {"SessionEstablished", "SendXferSegments"}
  /\ s.tracker # Nothing =>
       /\ s.tracker.acked <= s.tracker.pos /\ s.tracker.pos <= s.tracker.len
       /\ s.tracker.acked < s.tracker.len
       /\ s.tracker.id = s.last_used_transfer_id - 1
       /\ s.request # 0 /\ s.tracker.len = b[s.request]
  /\ s.state \in HandshakeStates \cup {"SendXferAck"} => s.request = 0
  /\ s.state = "SessionEstablished" => s.request = 0 \/ s.nested = 0
  /\ s.request # 0 => s.request \in DOMAIN s.results /\ s.results[s.request] = "none"
  /\ s.state = "WaitSessTerm" => s.terminating
  /\ s.state \in HandshakeStates => s.nested = 0 /\ s.buffer = <<>> /\ ~s.established

\* The fields the head of the loop leaves alone, and the ones it sets.
Headed(n, m) ==
  /\ m.state = n.state /\ m.nested = n.nested /\ m.tracker = n.tracker
  /\ m.ack = n.ack /\ m.terminating = n.terminating
  /\ m.last_used_transfer_id = n.last_used_transfer_id /\ m.buffer = n.buffer
  /\ m.receiving = n.receiving /\ m.passing = n.passing /\ m.quiet = n.quiet
  /\ m.flushing = FALSE
  /\ m.established <=> (n.established \/ is_established(n))
  /\ m.request = IF is_established(n) THEN 0 ELSE n.request
  /\ m.results = IF is_established(n) /\ n.request # 0
                 THEN [n.results EXCEPT ![n.request] = "ok"] ELSE n.results
  /\ m.outcome = IF n.nested = 0 /\ n.state = "ConnectionClose" THEN "closed"
                 ELSE n.outcome

\* What the head of the loop does.
LEMMA HeadFields ==
  ASSUME NEW b \in Seq(Nat), NEW n \in Sessions(b),
         NEW m, m = LoopHead([n EXCEPT !.flushing = FALSE])
  PROVE  Headed(n, m)
<1>1. PICK p : p = [n EXCEPT !.flushing = FALSE]
  OBVIOUS
<1>2. /\ p.state = n.state /\ p.nested = n.nested /\ p.tracker = n.tracker
      /\ p.ack = n.ack /\ p.terminating = n.terminating
      /\ p.last_used_transfer_id = n.last_used_transfer_id /\ p.buffer = n.buffer
      /\ p.receiving = n.receiving /\ p.passing = n.passing /\ p.quiet = n.quiet
      /\ p.flushing = FALSE /\ p.established = n.established /\ p.request = n.request
      /\ p.results = n.results /\ p.outcome = n.outcome /\ p \in Sessions(b)
  BY <1>1 DEF Sessions
<1>3. is_established(p) <=> is_established(n)
  BY <1>2 DEF is_established
<1>4. m = LoopHead(p)
  BY <1>1
<1>5. PICK e : e = (p.established \/ is_established(p))
  OBVIOUS
<1>6. PICK z : z = IF is_established(p) /\ p.request # 0
                   THEN [p.results EXCEPT ![p.request] = "ok"] ELSE p.results
  OBVIOUS
<1>7. PICK q : q = IF is_established(p) THEN 0 ELSE p.request
  OBVIOUS
<1>8. PICK o : o = IF p.nested = 0 /\ p.state = "ConnectionClose" THEN "closed"
                   ELSE p.outcome
  OBVIOUS
<1>9. m = [p EXCEPT !.established = e, !.results = z, !.request = q, !.outcome = o]
  BY <1>4, <1>5, <1>6, <1>7, <1>8, Zenon DEF LoopHead
<1>10. /\ m.state = p.state /\ m.nested = p.nested /\ m.tracker = p.tracker
       /\ m.ack = p.ack /\ m.terminating = p.terminating
       /\ m.last_used_transfer_id = p.last_used_transfer_id /\ m.buffer = p.buffer
       /\ m.receiving = p.receiving /\ m.passing = p.passing /\ m.quiet = p.quiet
       /\ m.flushing = p.flushing /\ m.established = e /\ m.results = z
       /\ m.request = q /\ m.outcome = o
  BY <1>2, <1>9 DEF Sessions
<1>11. m.established <=> (n.established \/ is_established(n))
  BY <1>2, <1>3, <1>5, <1>10, Zenon
<1>12. m.results = IF is_established(n) /\ n.request # 0
                   THEN [n.results EXCEPT ![n.request] = "ok"] ELSE n.results
  BY <1>2, <1>3, <1>6, <1>10, Zenon
<1>13. m.request = IF is_established(n) THEN 0 ELSE n.request
  BY <1>2, <1>3, <1>7, <1>10, Zenon
<1>14. m.outcome = IF n.nested = 0 /\ n.state = "ConnectionClose" THEN "closed"
                   ELSE n.outcome
  BY <1>2, <1>8, <1>10
<1> QED
  BY <1>2, <1>10, <1>11, <1>12, <1>13, <1>14, Zenon DEF Headed

\* The head of the loop makes a session of what the branch has prepared.
LEMMA HeadType ==
  ASSUME NEW b \in Seq(Nat), NEW n \in Sessions(b)
  PROVE  LoopHead([n EXCEPT !.flushing = FALSE]) \in Sessions(b)
<1>1. PICK p : p = [n EXCEPT !.flushing = FALSE]
  OBVIOUS
<1>2. p \in Sessions(b)
  BY <1>1 DEF Sessions
<1>5. PICK e : e = (p.established \/ is_established(p))
  OBVIOUS
<1>6. PICK z : z = IF is_established(p) /\ p.request # 0
                   THEN [p.results EXCEPT ![p.request] = "ok"] ELSE p.results
  OBVIOUS
<1>7. PICK q : q = IF is_established(p) THEN 0 ELSE p.request
  OBVIOUS
<1>8. PICK o : o = IF p.nested = 0 /\ p.state = "ConnectionClose" THEN "closed"
                   ELSE p.outcome
  OBVIOUS
<1>9. LoopHead(p) = [p EXCEPT !.established = e, !.results = z, !.request = q, !.outcome = o]
  BY <1>5, <1>6, <1>7, <1>8, Zenon DEF LoopHead
<1>10. e \in BOOLEAN
  BY <1>5, Zenon
<1>11. p.results \in Results(b)
  BY <1>2 DEF Sessions
<1>12. [p.results EXCEPT ![p.request] = "ok"] \in Results(b)
  BY <1>11 DEF Results
<1>13. z \in Results(b)
  BY <1>6, <1>11, <1>12, Zenon
<1>14. q \in Nat /\ o \in {"running", "closed", "failed", "panicked"}
  BY <1>2, <1>7, <1>8 DEF Sessions
<1>15. LoopHead(p) \in Sessions(b)
  BY <1>2, <1>9, <1>10, <1>13, <1>14 DEF Sessions
<1> QED
  BY <1>1, <1>15

\* After the head of the loop the states have their contents.
LEMMA HeadState ==
  ASSUME NEW b \in Seq(Nat), NEW n \in Sessions(b), Prepared(n, b), NEW m, Headed(n, m)
  PROVE  StateInv(m, b)
<1>1. is_established(n) <=> n.nested = 0 /\ n.state = "SessionEstablished"
  BY DEF is_established
<1>2. m.request # 0 => m.request = n.request /\ m.results = n.results
  BY Zenon DEF Headed
<1>3. n.established \in BOOLEAN
  BY DEF Sessions
<1>4. n.state \in HandshakeStates => ~m.established
  BY <1>1, <1>3 DEF Prepared, HandshakeStates, Headed
<1>5. n.state = "SessionEstablished" => m.request = 0
  BY <1>1 DEF Prepared, Headed
<1>6. n.state \in HandshakeStates \cup {"SendXferAck"} => m.request = 0
  BY <1>1 DEF Prepared, Headed
<1>7. m.tracker # Nothing => m.request = n.request
  BY <1>1 DEF Prepared, Segmenting, Headed
<1> QED
  BY <1>2, <1>4, <1>5, <1>6, <1>7 DEF Prepared, StateInv, Headed

\* The head of the loop answers no bundle that is still to be taken.
LEMMA HeadQueue ==
  ASSUME NEW b \in Seq(Nat), NEW n \in Sessions(b), NEW q \in Seq(Nat), QueueInv(n, q),
         NEW m, Headed(n, m)
  PROVE  QueueInv(m, q)
<1>1. n.request \in Nat
  BY DEF Sessions
<1>2. m.request \in Nat /\ m.request <= n.request
  BY <1>1 DEF Headed
<1>3. DOMAIN m.results = DOMAIN n.results
  BY DEF Headed
<1>4. ASSUME NEW i \in 1..Len(q)
      PROVE  m.results[q[i]] = "none"
  <2>1. q[i] # n.request
    BY <1>1 DEF QueueInv
  <2>2. q[i] \in DOMAIN n.results /\ n.results[q[i]] = "none"
    BY DEF QueueInv
  <2> QED
    BY <2>1, <2>2 DEF Headed
<1>5. \A i \in 1..Len(q) : q[i] \in Nat
  BY ElementOfSeq
<1> QED
  BY <1>1, <1>2, <1>3, <1>4, <1>5 DEF QueueInv

-------------------------------------------------------------------------------
(* The branches of the loop *)

\* The fields that writing leaves alone.
Kept(s, n) ==
  /\ n.tracker = s.tracker /\ n.last_used_transfer_id = s.last_used_transfer_id
  /\ n.buffer = s.buffer /\ n.receiving = s.receiving /\ n.passing = s.passing
  /\ n.request = s.request /\ n.established = s.established /\ n.results = s.results
  /\ n.outcome = s.outcome /\ n.quiet = s.quiet

\* A change of the state and the nesting alone.
LEMMA Moved ==
  ASSUME NEW b \in Seq(Nat), NEW s \in Sessions(b), NEW c \in States,
         NEW n, n = [s EXCEPT !.state = c]
  PROVE  /\ n \in Sessions(b) /\ Kept(s, n) /\ n.state = c /\ n.nested = s.nested
         /\ n.ack = s.ack /\ n.terminating = s.terminating
BY DEF Sessions, Kept

\* The end of a keepalive.
LEMMA Unnested ==
  ASSUME NEW b \in Seq(Nat), NEW s \in Sessions(b), s.nested > 0,
         NEW n, n = [s EXCEPT !.nested = @ - 1]
  PROVE  /\ n \in Sessions(b) /\ Kept(s, n) /\ n.state = s.state /\ n.nested = s.nested - 1
         /\ n.ack = s.ack /\ n.terminating = s.terminating
<1>1. s.nested \in Nat /\ s.nested - 1 \in Nat
  BY DEF Sessions
<1>2. PICK k \in Nat : k = s.nested - 1
  BY <1>1
<1>3. n = [s EXCEPT !.nested = k]
  BY <1>2
<1> QED
  BY <1>2, <1>3 DEF Sessions, Kept

\* A message was sent.
LEMMA CompleteEffect ==
  ASSUME NEW b \in Seq(Nat), NEW s \in Sessions(b), StateInv(s, b),
         s.nested > 0 \/ s.state \notin Waits \cup {"ConnectionClose"},
         NEW n, n = send_complete(s)
  PROVE  n \in Sessions(b) /\ Prepared(n, b) /\ Kept(s, n) /\ n.nested <= s.nested
<1>0. s.nested \in Nat /\ s.state \in States
  BY DEF Sessions
<1>1. CASE s.nested > 0
  <2>1. n = [s EXCEPT !.nested = @ - 1]
    BY <1>0, <1>1, KeepaliveFirst
  <2>2. /\ n \in Sessions(b) /\ Kept(s, n) /\ n.state = s.state /\ n.nested = s.nested - 1
        /\ n.ack = s.ack /\ n.terminating = s.terminating
    BY <1>1, <2>1, Unnested
  <2> QED
    BY <1>0, <1>1, <2>2 DEF StateInv, Prepared, Kept
<1>2. ASSUME s.nested = 0, NEW c \in States, n = [s EXCEPT !.state = c],
             s.state \in HandshakeStates, c \in HandshakeStates \cup {"SessionEstablished"}
      PROVE  n \in Sessions(b) /\ Prepared(n, b) /\ Kept(s, n) /\ n.nested <= s.nested
  <2>1. /\ n \in Sessions(b) /\ Kept(s, n) /\ n.state = c /\ n.nested = s.nested
        /\ n.ack = s.ack /\ n.terminating = s.terminating
    BY <1>2, Moved
  <2> QED
    BY <1>0, <1>2, <2>1
    DEF StateInv, Prepared, Kept, Segmenting, Acking, HandshakeStates
<1>3. CASE s.nested = 0 /\ s.state \in HandshakeStates
  <2>1. s.state \in {"ActiveSendContactHeader", "PassiveSendContactHeader",
                     "ActiveSendSessInit", "PassiveSendSessInit"}
    BY <1>3 DEF HandshakeStates, Waits
  <2>2. \E c \in HandshakeStates \cup {"SessionEstablished"} : n = [s EXCEPT !.state = c]
    BY <1>3, <2>1, HandshakeSends, Zenon DEF HandshakeStates
  <2> QED
    BY <1>2, <1>3, <2>2 DEF States
<1>4. CASE s.nested = 0 /\ s.state \in Acking
  <2>1. PICK c : /\ c = IF s.state = "SendXferAck" THEN "SessionEstablished"
                        ELSE "SendXferSegments"
    OBVIOUS
  <2>2. n = [s EXCEPT !.state = c, !.ack = Nothing]
    BY <1>4, <2>1, TransferSends, Zenon DEF Acking
  <2>3. c \in States /\ Nothing \in {Nothing}
    BY <2>1 DEF States
  <2>4. n \in Sessions(b) /\ Kept(s, n) /\ n.state = c /\ n.nested = s.nested
        /\ n.ack = Nothing /\ n.terminating = s.terminating
    BY <2>2, <2>3 DEF Sessions, Kept
  <2>5. s.passing = Nothing
    BY <1>4 DEF StateInv, Acking
  <2> QED
    BY <1>0, <1>4, <2>1, <2>4, <2>5
    DEF StateInv, Prepared, Kept, Segmenting, Acking, HandshakeStates
<1>5. CASE s.nested = 0 /\ s.state = "SendXferSegments"
  <2>1. s.tracker # Nothing
    BY <1>5 DEF StateInv, Segmenting
  <2>2. s.tracker \in Trackers
    BY <2>1 DEF Sessions
  <2>3. s.tracker.acked # s.tracker.len
    BY <2>1, <2>2 DEF StateInv, Trackers
  <2>4. n = s
    BY <1>5, <2>3, TransferSends
  <2> QED
    BY <1>0, <1>5, <2>4 DEF StateInv, Prepared, Kept
<1>6. CASE s.nested = 0 /\ s.state = "SendSessTerm"
  <2>1. PICK c : c = IF s.terminating THEN "ConnectionClose" ELSE "WaitSessTerm"
    OBVIOUS
  <2>2. n = [s EXCEPT !.state = c, !.terminating = TRUE]
    BY <1>6, <2>1, ClosingSends
  <2>3. c \in States
    BY <2>1 DEF States
  <2>4. n \in Sessions(b) /\ Kept(s, n) /\ n.state = c /\ n.nested = s.nested
        /\ n.ack = s.ack /\ n.terminating = TRUE
    BY <2>2, <2>3 DEF Sessions, Kept
  <2>5. s.tracker = Nothing /\ s.ack = Nothing /\ s.passing = Nothing
    BY <1>6 DEF StateInv, Segmenting, Acking
  <2> QED
    BY <1>0, <1>6, <2>1, <2>4, <2>5
    DEF StateInv, Prepared, Kept, Segmenting, Acking, HandshakeStates
<1>7. CASE s.nested = 0 /\ s.state = "SendMsgReject"
  <2>2. n = [s EXCEPT !.state = "ConnectionClose", !.terminating = TRUE]
    BY <1>7, ClosingSends
  <2>4. n \in Sessions(b) /\ Kept(s, n) /\ n.state = "ConnectionClose"
        /\ n.nested = s.nested /\ n.ack = s.ack /\ n.terminating = TRUE
    BY <2>2 DEF Sessions, Kept, States
  <2>5. s.tracker = Nothing /\ s.ack = Nothing /\ s.passing = Nothing
    BY <1>7 DEF StateInv, Segmenting, Acking
  <2> QED
    BY <1>0, <1>7, <2>4, <2>5
    DEF StateInv, Prepared, Kept, Segmenting, Acking, HandshakeStates
<1>8. s.nested = 0 => s.state \in HandshakeStates \cup Acking
        \cup {"SendXferSegments", "SendSessTerm", "SendMsgReject"}
  BY <1>0 DEF States, HandshakeStates, Acking, Waits
<1> QED
  BY <1>0, <1>1, <1>3, <1>4, <1>5, <1>6, <1>7, <1>8

\* The position moves on when a segment is put into the buffer.
LEMMA FedEffect ==
  ASSUME NEW b \in Seq(Nat), NEW s \in Sessions(b), StateInv(s, b), IsWritable(s),
         NEW n, n = Fed(s)
  PROVE  /\ n \in Sessions(b) /\ StateInv(n, b)
         /\ n = [s EXCEPT !.tracker = n.tracker]
         /\ IF s.nested = 0 /\ s.state = "SendXferSegments"
            THEN /\ s.tracker \in Trackers /\ s.tracker.pos < s.tracker.len
                 /\ n.tracker = [s.tracker EXCEPT !.pos = @ + 1]
            ELSE n = s
<1>1. CASE s.nested = 0 /\ s.state = "SendXferSegments"
  <2>1. s.tracker # Nothing
    BY <1>1 DEF StateInv, Segmenting
  <2>2. s.tracker \in Trackers
    BY <2>1 DEF Sessions
  <2>3. s.tracker.pos # s.tracker.len
    BY <1>1 DEF IsWritable, AllSent, Waits
  <2>4. s.tracker.pos < s.tracker.len
    BY <2>1, <2>2, <2>3 DEF StateInv, Trackers
  <2>5. PICK t : t = [s.tracker EXCEPT !.pos = @ + 1]
    OBVIOUS
  <2>6. /\ t \in Trackers /\ t.id = s.tracker.id /\ t.len = s.tracker.len
        /\ t.acked = s.tracker.acked /\ t.pos = s.tracker.pos + 1
    BY <2>2, <2>5, SMTT(30) DEF Trackers
  <2>7. n = [s EXCEPT !.tracker = t]
    BY <1>1, <2>5 DEF Fed
  <2>8. /\ n \in Sessions(b) /\ n.tracker = t /\ n.state = s.state /\ n.ack = s.ack
        /\ n.passing = s.passing /\ n.request = s.request /\ n.results = s.results
        /\ n.last_used_transfer_id = s.last_used_transfer_id /\ n.nested = s.nested
        /\ n.flushing = s.flushing /\ n.terminating = s.terminating
        /\ n.buffer = s.buffer /\ n.established = s.established
    BY <2>6, <2>7 DEF Sessions
  <2>9. t # Nothing
    BY <2>6, NothingIs
  <2>10. StateInv(n, b)
    BY <2>1, <2>2, <2>4, <2>6, <2>8, <2>9 DEF StateInv, Trackers
  <2> QED
    BY <1>1, <2>2, <2>4, <2>5, <2>7, <2>8, <2>10
<1>2. CASE ~(s.nested = 0 /\ s.state = "SendXferSegments")
  <2>1. n = s
    BY <1>2 DEF Fed
  <2>2. s = [s EXCEPT !.tracker = s.tracker]
    BY DEF Sessions
  <2> QED
    BY <1>2, <2>1, <2>2
<1> QED
  BY <1>1, <1>2

\* What send_message hands to the writer.
LEMMA MessageType ==
  ASSUME NEW b \in Seq(Nat), NEW s \in Sessions(b), StateInv(s, b), IsWritable(s),
         NEW m, m = MessageOf(s)
  PROVE  /\ m \in Messages
         /\ Segment(m) <=> s.nested = 0 /\ s.state = "SendXferSegments"
         /\ Acknowledges(m) <=> s.nested = 0 /\ s.state \in Acking
         /\ m.type \in HandshakeTypes <=> s.nested = 0 /\ s.state \in HandshakeStates
<1>0. s.nested \in Nat /\ s.state \in States
  BY DEF Sessions
<1>1. CASE s.nested > 0
  <2>1. m = [type |-> "Keepalive"]
    BY <1>0, <1>1, KeepaliveFirst
  <2> QED
    BY <1>1, <2>1 DEF Messages, PlainTypes, Segment, Acknowledges, HandshakeTypes
<1>2. CASE s.nested = 0 /\ s.state \in HandshakeStates
  <2>1. s.state \in {"ActiveSendContactHeader", "PassiveSendContactHeader",
                     "ActiveSendSessInit", "PassiveSendSessInit"}
    BY <1>2 DEF HandshakeStates, Waits, IsWritable
  <2>2. m = [type |-> "ContactHeader"] \/ m = [type |-> "SessInit"]
    BY <1>2, <2>1, HandshakeSends, Zenon
  <2> QED
    BY <1>2, <2>1, <2>2 DEF Messages, PlainTypes, Segment, Acknowledges, HandshakeTypes, Acking
<1>3. CASE s.nested = 0 /\ s.state \in Acking
  <2>1. m = [type |-> "XferAck", id |-> s.ack.id, len |-> s.ack.len]
    BY <1>3, TransferSends, Zenon DEF Acking
  <2>2. s.ack # Nothing
    BY <1>3 DEF StateInv
  <2>3. s.ack \in Acks
    BY <2>2 DEF Sessions
  <2>4. m \in Messages
    BY <2>1, <2>3 DEF Messages, Acks
  <2> QED
    BY <1>3, <2>1, <2>4
    DEF Segment, Acknowledges, HandshakeTypes, Acking, HandshakeStates
<1>4. CASE s.nested = 0 /\ s.state = "SendXferSegments"
  <2>1. m = [type |-> "XferSegment", id |-> s.tracker.id,
             data |-> <<s.request, s.tracker.pos + 1>>,
             end |-> s.tracker.pos + 1 = s.tracker.len]
    BY <1>4, TransferSends, Zenon
  <2>2. s.tracker # Nothing
    BY <1>4 DEF StateInv, Segmenting
  <2>3. s.tracker \in Trackers /\ s.request \in Nat
    BY <2>2 DEF Sessions
  <2>4. s.tracker.id \in Nat /\ s.tracker.pos + 1 \in Nat
    BY <2>3 DEF Trackers
  <2>5. PICK e \in BOOLEAN : e = (s.tracker.pos + 1 = s.tracker.len)
    OBVIOUS
  <2>6. PICK d \in Nat \X Nat : d = <<s.request, s.tracker.pos + 1>>
    BY <2>3, <2>4
  <2>7. m = [type |-> "XferSegment", id |-> s.tracker.id, data |-> d, end |-> e]
    BY <2>1, <2>5, <2>6, Zenon
  <2>8. m \in Messages /\ m.type = "XferSegment"
    BY <2>4, <2>7 DEF Messages
  <2> QED
    BY <1>4, <2>8
    DEF Segment, Acknowledges, HandshakeTypes, Acking, HandshakeStates
<1>5. CASE s.nested = 0 /\ s.state \in {"SendSessTerm", "SendMsgReject"}
  <2>1. m = [type |-> "SessTerm"] \/ m = [type |-> "MsgReject"]
    BY <1>5, ClosingSends, Zenon
  <2> QED
    BY <1>5, <2>1 DEF Messages, PlainTypes, Segment, Acknowledges, HandshakeTypes, Acking,
                      HandshakeStates
<1>6. s.nested = 0 => s.state \in HandshakeStates \cup Acking
        \cup {"SendXferSegments", "SendSessTerm", "SendMsgReject"}
  BY <1>0 DEF States, HandshakeStates, Acking, Waits, IsWritable
<1> QED
  BY <1>0, <1>1, <1>2, <1>3, <1>4, <1>5, <1>6

SameSender(s, n) ==
  /\ n.request = s.request /\ n.results = s.results
  /\ n.last_used_transfer_id = s.last_used_transfer_id
SameReceiver(s, n) ==
  n.receiving = s.receiving /\ n.passing = s.passing /\ n.ack = s.ack
SameLoop(s, n) ==
  n.nested = s.nested /\ n.buffer = s.buffer /\ n.established = s.established
  /\ n.outcome = s.outcome

\* A readable session has nothing to acknowledge.
LEMMA ReadableIs ==
  ASSUME NEW b, NEW s \in Sessions(b), StateInv(s, b), IsReadable(s), s.passing = Nothing
  PROVE  /\ s.ack = Nothing /\ s.nested = 0
         /\ s.state \in Waits \cup {"SendXferSegments"}
         /\ s.tracker # Nothing <=> s.state = "SendXferSegments"
BY DEF StateInv, IsReadable, Segmenting, Acking, Waits

\* The rejection of a message.
LEMMA RejectEffect ==
  ASSUME NEW b \in Seq(Nat), NEW s \in Sessions(b), StateInv(s, b), IsReadable(s),
         s.passing = Nothing, NEW n, n = Reject(s)
  PROVE  /\ n \in Sessions(b) /\ Prepared(n, b)
         /\ SameSender(s, n) /\ SameReceiver(s, n) /\ SameLoop(s, n)
         /\ n.state = "SendMsgReject" /\ n.tracker = Nothing
         /\ n.terminating = s.terminating
<1>1. s.ack = Nothing /\ s.nested = 0
  BY ReadableIs
<1>2. /\ n \in Sessions(b) /\ SameSender(s, n) /\ SameReceiver(s, n) /\ SameLoop(s, n)
      /\ n.state = "SendMsgReject" /\ n.tracker = Nothing
      /\ n.terminating = s.terminating
  BY ZenonT(40) DEF Reject, Sessions, States, SameSender, SameReceiver, SameLoop
<1>3. Prepared(n, b)
  BY <1>1, <1>2
  DEF Prepared, StateInv, SameSender, SameReceiver, SameLoop, Segmenting, Acking,
      HandshakeStates
<1> QED
  BY <1>2, <1>3

\* Where the handshake leads.
Onward == HandshakeStates \cup {"SessionEstablished"}
Moves(s, n, c) == n = [s EXCEPT !.state = c]

\* The next step of the handshake.
LEMMA HandshakeEffect ==
  ASSUME NEW b \in Seq(Nat), NEW s \in Sessions(b), StateInv(s, b),
         s.state \in HandshakeStates,
         NEW c \in Onward,
         NEW n, Moves(s, n, c)
  PROVE  /\ n \in Sessions(b) /\ Prepared(n, b)
         /\ SameSender(s, n) /\ SameReceiver(s, n) /\ SameLoop(s, n)
         /\ n.state = c /\ n.tracker = Nothing /\ n.terminating = s.terminating
<1>0. c \in States /\ c \in HandshakeStates \cup {"SessionEstablished"}
  BY DEF States, Onward
<1>1. /\ n \in Sessions(b) /\ SameSender(s, n) /\ SameReceiver(s, n) /\ SameLoop(s, n)
      /\ n.state = c /\ n.tracker = s.tracker /\ n.terminating = s.terminating
  BY <1>0 DEF Sessions, SameSender, SameReceiver, SameLoop, Moves
<1>2. s.tracker = Nothing /\ s.ack = Nothing /\ s.passing = Nothing
  BY DEF StateInv, Segmenting, Acking, HandshakeStates
<1>3. Prepared(n, b)
  BY <1>0, <1>1, <1>2
  DEF Prepared, StateInv, SameSender, SameReceiver, SameLoop, Segmenting, Acking,
      HandshakeStates
<1> QED
  BY <1>1, <1>2, <1>3

\* A keepalive of the peer.
LEMMA KeepaliveEffect ==
  ASSUME NEW b \in Seq(Nat), NEW s \in Sessions(b), StateInv(s, b),
         NEW n, n = [s EXCEPT !.quiet = 0]
  PROVE  /\ n \in Sessions(b) /\ Prepared(n, b)
         /\ SameSender(s, n) /\ SameReceiver(s, n) /\ SameLoop(s, n)
         /\ n.state = s.state /\ n.tracker = s.tracker /\ n.terminating = s.terminating
<1>1. /\ n \in Sessions(b) /\ SameSender(s, n) /\ SameReceiver(s, n) /\ SameLoop(s, n)
      /\ n.state = s.state /\ n.tracker = s.tracker /\ n.terminating = s.terminating
  BY DEF Sessions, SameSender, SameReceiver, SameLoop
<1>2. Prepared(n, b)
  BY <1>1 DEF Prepared, StateInv, SameSender, SameReceiver, SameLoop
<1> QED
  BY <1>1, <1>2

\* A SessTerm of the peer.
LEMMA TermEffect ==
  ASSUME NEW b \in Seq(Nat), NEW s \in Sessions(b), StateInv(s, b), IsReadable(s),
         s.passing = Nothing, NEW n, n = TakeTerm(s)
  PROVE  /\ n \in Sessions(b) /\ Prepared(n, b)
         /\ SameSender(s, n) /\ SameReceiver(s, n) /\ SameLoop(s, n)
         /\ Over(n) /\ n.tracker = Nothing
         /\ n.state = "SendMsgReject" => s.state \in HandshakeStates
<1>1. s.ack = Nothing /\ s.nested = 0 /\ s.state \in Waits \cup {"SendXferSegments"}
      /\ (s.tracker # Nothing <=> s.state = "SendXferSegments")
  BY ReadableIs
<1>2. CASE s.state \in HandshakeStates
  BY <1>2, TermTaken, RejectEffect DEF Over
<1>3. CASE s.state = "WaitSessTerm"
  <2>1. n = [s EXCEPT !.state = "ConnectionClose"]
    BY <1>3, TermTaken
  <2>2. /\ n \in Sessions(b) /\ SameSender(s, n) /\ SameReceiver(s, n) /\ SameLoop(s, n)
        /\ n.state = "ConnectionClose" /\ n.tracker = s.tracker
    BY <2>1 DEF Sessions, States, SameSender, SameReceiver, SameLoop
  <2>3. Prepared(n, b)
    BY <1>1, <1>3, <2>2
    DEF Prepared, StateInv, SameSender, SameReceiver, SameLoop, Segmenting, Acking,
        HandshakeStates
  <2> QED
    BY <1>1, <1>3, <2>2, <2>3 DEF Over
<1>4. CASE s.state \in {"SessionEstablished", "SendXferSegments"}
  <2>1. n = [s EXCEPT !.state = "SendSessTerm", !.terminating = TRUE, !.tracker = Nothing]
    BY <1>4, TermTaken
  <2>2. /\ n \in Sessions(b) /\ SameSender(s, n) /\ SameReceiver(s, n) /\ SameLoop(s, n)
        /\ n.state = "SendSessTerm" /\ n.tracker = Nothing
    BY <2>1 DEF Sessions, States, SameSender, SameReceiver, SameLoop
  <2>3. Prepared(n, b)
    BY <1>1, <2>2
    DEF Prepared, StateInv, SameSender, SameReceiver, SameLoop, Segmenting, Acking,
        HandshakeStates
  <2> QED
    BY <2>2, <2>3 DEF Over
<1> QED
  BY <1>1, <1>2, <1>3, <1>4 DEF Waits, HandshakeStates

\* The last segment, or another one, is taken.
Passes(s, n, t, a) == n = [s EXCEPT !.receiving = Nothing, !.ack = a, !.passing = t]
Answers(s, n, r, a) ==
  n = [s EXCEPT !.receiving = r, !.passing = Nothing, !.ack = a,
                !.state = IF s.state = "SendXferSegments" THEN "SendXferSegmentsAndAck"
                          ELSE "SendXferAck"]

\* An acknowledgement that is given to the state machine.
LEMMA AckGiven ==
  ASSUME NEW b \in Seq(Nat), NEW s \in Sessions(b), StateInv(s, b),
         s.state \in {"SessionEstablished", "SendXferSegments"},
         NEW r \in Transfers \cup {Nothing}, NEW a \in Acks, NEW n,
         Answers(s, n, r, a)
  PROVE  /\ n \in Sessions(b) /\ Prepared(n, b) /\ SameSender(s, n) /\ SameLoop(s, n)
         /\ n.receiving = r /\ n.passing = Nothing /\ n.ack = a
         /\ n.tracker = s.tracker /\ n.state \in Acking
         /\ n.terminating = s.terminating
<1>1. PICK c : c = IF s.state = "SendXferSegments" THEN "SendXferSegmentsAndAck"
                   ELSE "SendXferAck"
  OBVIOUS
<1>2. c \in States
  BY <1>1 DEF States
<1>3. n = [s EXCEPT !.receiving = r, !.passing = Nothing, !.ack = a, !.state = c]
  BY <1>1 DEF Answers
<1>4. /\ n \in Sessions(b) /\ SameSender(s, n) /\ SameLoop(s, n)
      /\ n.receiving = r /\ n.passing = Nothing /\ n.ack = a /\ n.state = c
      /\ n.tracker = s.tracker /\ n.terminating = s.terminating
  BY <1>2, <1>3 DEF Sessions, SameSender, SameLoop
<1>5. a # Nothing
  BY NothingIs
<1>6. c \in Acking /\ (c \in Segmenting <=> s.state \in Segmenting)
      /\ c \notin HandshakeStates /\ c # "WaitSessTerm" /\ c # "SessionEstablished"
  BY <1>1 DEF Acking, Segmenting, HandshakeStates
<1>7. c = "SendXferAck" => s.request = 0
  BY <1>1 DEF StateInv
<1>8. Prepared(n, b)
  BY <1>4, <1>5, <1>6, <1>7 DEF Prepared, StateInv, SameSender, SameLoop
<1> QED
  BY <1>4, <1>6, <1>8

\* The last segment: the transfer waits for room in the channel.
LEMMA PassingEffect ==
  ASSUME NEW b \in Seq(Nat), NEW s \in Sessions(b), StateInv(s, b),
         s.nested = 0, s.state \in {"SessionEstablished", "SendXferSegments"},
         NEW t \in Transfers, NEW a \in Acks,
         NEW n, Passes(s, n, t, a)
  PROVE  /\ n \in Sessions(b) /\ Prepared(n, b) /\ SameSender(s, n) /\ SameLoop(s, n)
         /\ n.receiving = Nothing /\ n.passing = t /\ n.ack = a
         /\ n.tracker = s.tracker /\ n.state = s.state /\ n.terminating = s.terminating
<1>1. /\ n \in Sessions(b) /\ SameSender(s, n) /\ SameLoop(s, n)
      /\ n.receiving = Nothing /\ n.passing = t /\ n.ack = a /\ n.state = s.state
      /\ n.tracker = s.tracker /\ n.terminating = s.terminating
  BY DEF Sessions, SameSender, SameLoop, Passes
<1>2. t # Nothing /\ a # Nothing
  BY NothingIs
<1>3. Prepared(n, b)
  BY <1>1, <1>2 DEF Prepared, StateInv, SameSender, SameLoop, HandshakeStates
<1> QED
  BY <1>1, <1>3

\* An acknowledgement of the peer.
LEMMA TakeAckEffect ==
  ASSUME NEW b \in Seq(Nat), NEW s \in Sessions(b), StateInv(s, b),
         s.nested = 0, s.state = "SendXferSegments", s.passing = Nothing,
         NEW k \in Nat, k <= s.tracker.pos, NEW n, n = TakeAck(s, k)
  PROVE  /\ n \in Sessions(b) /\ Prepared(n, b)
         /\ SameSender(s, n) /\ SameReceiver(s, n) /\ SameLoop(s, n)
         /\ IF k = s.tracker.len THEN n.state = "SessionEstablished" /\ n.tracker = Nothing
            ELSE /\ n.state = "SendXferSegments" /\ n.tracker # Nothing
                 /\ n.tracker.pos = s.tracker.pos
         /\ n.terminating = s.terminating /\ s.tracker \in Trackers
<1>1. s.tracker # Nothing
  BY DEF StateInv, Segmenting
<1>2. s.tracker \in Trackers
  BY <1>1 DEF Sessions
<1>3. CASE k = s.tracker.len
  <2>1. n = [s EXCEPT !.state = "SessionEstablished", !.tracker = Nothing]
    BY <1>3 DEF TakeAck
  <2>2. /\ n \in Sessions(b) /\ SameSender(s, n) /\ SameReceiver(s, n) /\ SameLoop(s, n)
        /\ n.state = "SessionEstablished" /\ n.tracker = Nothing
        /\ n.terminating = s.terminating
    BY <2>1 DEF Sessions, States, SameSender, SameReceiver, SameLoop
  <2>3. Prepared(n, b)
    BY <2>2 DEF Prepared, StateInv, SameSender, SameReceiver, SameLoop, Segmenting, Acking,
                HandshakeStates
  <2> QED
    BY <1>2, <1>3, <2>2, <2>3
<1>4. CASE k # s.tracker.len
  <2>1. PICK t : t = [s.tracker EXCEPT !.acked = k]
    OBVIOUS
  <2>2. n = [s EXCEPT !.tracker = t]
    BY <1>4, <2>1 DEF TakeAck
  <2>3. /\ t \in Trackers /\ t.pos = s.tracker.pos /\ t.acked = k /\ t.len = s.tracker.len
        /\ t.id = s.tracker.id
    BY <1>2, <2>1 DEF Trackers
  <2>4. /\ n \in Sessions(b) /\ SameSender(s, n) /\ SameReceiver(s, n) /\ SameLoop(s, n)
        /\ n.state = s.state /\ n.tracker = t /\ n.terminating = s.terminating
    BY <2>2, <2>3 DEF Sessions, SameSender, SameReceiver, SameLoop
  <2>5. t # Nothing
    BY <2>3, NothingIs
  <2>6. k < s.tracker.len
    BY <1>1, <1>2, <1>4 DEF StateInv, Trackers
  <2>7. Prepared(n, b)
    BY <1>1, <2>3, <2>4, <2>5, <2>6
    DEF Prepared, StateInv, SameSender, SameReceiver, SameLoop, Segmenting, Acking,
        HandshakeStates
  <2> QED
    BY <1>2, <1>4, <2>3, <2>4, <2>5, <2>7
<1> QED
  BY <1>3, <1>4

\* The bundle h that was taken, and the bundles w that are left.
Taken(q, h, w) ==
  /\ w \in Seq(Nat) /\ Len(w) = Len(q) - 1
  /\ \A i \in 1..Len(w) : w[i] = q[i + 1] /\ i + 1 \in 1..Len(q)
  /\ \A i \in 1..Len(w) : h < w[i] /\ w[i] \in Nat
  /\ h \in Nat /\ h = q[1] /\ 1 \in 1..Len(q)

\* The first bundle is taken.
LEMMA QueueTail ==
  ASSUME NEW s, NEW q \in Seq(Nat), q # <<>>, QueueInv(s, q)
  PROVE  Taken(q, Head(q), Tail(q))
<1>1. Tail(q) \in Seq(Nat) /\ Len(q) \in Nat /\ Len(q) > 0 /\ Len(Tail(q)) = Len(q) - 1
  OBVIOUS
<1>2. \A i \in 1..Len(Tail(q)) : Tail(q)[i] = q[i + 1] /\ i + 1 \in 1..Len(q)
  BY <1>1
<1>3. Head(q) \in Nat /\ Head(q) = q[1] /\ 1 \in 1..Len(q)
  BY <1>1
<1>4. \A i \in 1..Len(Tail(q)) : Head(q) < Tail(q)[i]
  BY <1>2, <1>3 DEF QueueInv
<1>5. \A i \in 1..Len(Tail(q)) : Tail(q)[i] \in Nat
  BY <1>1, ElementOfSeq
<1> QED
  BY <1>1, <1>2, <1>3, <1>4, <1>5 DEF Taken

\* What holds of the bundles that are left.
LEMMA QueueLeft ==
  ASSUME NEW s, NEW q \in Seq(Nat), QueueInv(s, q), NEW h, NEW w, Taken(q, h, w)
  PROVE  /\ QueueInv(s, w) /\ h \in DOMAIN s.results /\ s.results[h] = "none"
         /\ s.request < h
<1>1. h \in DOMAIN s.results /\ s.results[h] = "none" /\ s.request < h
  BY DEF Taken, QueueInv
<1>2. \A i \in 1..Len(w) : w[i] \in DOMAIN s.results /\ s.results[w[i]] = "none"
                           /\ s.request < w[i]
  BY DEF Taken, QueueInv
<1>3. ASSUME NEW i \in 1..Len(w), NEW j \in 1..Len(w), i < j
      PROVE  w[i] < w[j]
  <2>1. w[i] = q[i + 1] /\ w[j] = q[j + 1] /\ i + 1 \in 1..Len(q) /\ j + 1 \in 1..Len(q)
    BY DEF Taken
  <2>2. i + 1 < j + 1
    BY <1>3 DEF Taken
  <2> QED
    BY <2>1, <2>2 DEF QueueInv
<1> QED
  BY <1>1, <1>2, <1>3 DEF QueueInv

\* The bundle that was taken is not left.
LEMMA QueueOther ==
  ASSUME NEW q, NEW h, NEW w, Taken(q, h, w)
  PROVE  \A i \in 1..Len(w) : w[i] # h
BY DEF Taken

\* The bundle h is refused, or its transfer t begun.
Refuses(s, n, h) == n = [s EXCEPT !.results[h] = "too large"]
Begins(s, n, h, t) ==
  n = [s EXCEPT !.state = "SendXferSegments", !.request = h,
                !.last_used_transfer_id = @ + 1, !.tracker = t]

\* A bundle is taken and answered at once.
Refused(s, n, h) ==
  /\ n.request = s.request /\ n.last_used_transfer_id = s.last_used_transfer_id
  /\ n.tracker = s.tracker /\ n.results = [s.results EXCEPT ![h] = "too large"]

\* A request for a bundle that is too large is answered.
LEMMA TooLargeEffect ==
  ASSUME NEW b \in Seq(Nat), NEW s \in Sessions(b), StateInv(s, b),
         NEW q \in Seq(Nat), NEW h, NEW w, QueueInv(s, q), Taken(q, h, w),
         s.nested = 0, s.state = "SessionEstablished",
         NEW n, Refuses(s, n, h)
  PROVE  /\ n \in Sessions(b) /\ Prepared(n, b) /\ QueueInv(n, w)
         /\ Refused(s, n, h) /\ SameReceiver(s, n) /\ SameLoop(s, n)
         /\ n.state = s.state /\ n.terminating = s.terminating
<1>1. PICK z : z = [s.results EXCEPT ![h] = "too large"]
  OBVIOUS
<1>2. s.results \in Results(b) /\ s.request \in Nat
  BY DEF Sessions
<1>3. z \in Results(b) /\ DOMAIN z = DOMAIN s.results
      /\ \A i \in DOMAIN s.results : i # h => z[i] = s.results[i]
  BY <1>1, <1>2 DEF Results
<1>4. n = [s EXCEPT !.results = z]
  BY <1>1 DEF Refuses
<1>5. /\ n \in Sessions(b) /\ n.results = z /\ n.request = s.request
      /\ n.last_used_transfer_id = s.last_used_transfer_id
      /\ SameReceiver(s, n) /\ SameLoop(s, n) /\ n.tracker = s.tracker
      /\ n.state = s.state /\ n.terminating = s.terminating
  BY <1>3, <1>4 DEF Sessions, SameReceiver, SameLoop
<1>6. s.request = 0
  BY DEF StateInv
<1>7. Prepared(n, b)
  BY <1>5, <1>6 DEF Prepared, StateInv, SameReceiver, SameLoop, HandshakeStates
<1>8. \A i \in 1..Len(w) : w[i] # h
  BY QueueOther
<1>9. QueueInv(s, w)
  BY QueueLeft
<1>11. QueueInv(n, w)
  BY <1>3, <1>5, <1>8, <1>9 DEF QueueInv
<1>12. Refused(s, n, h)
  BY <1>1, <1>5 DEF Refused
<1> QED
  BY <1>5, <1>7, <1>11, <1>12

\* A transfer is begun.
LEMMA TransferEffect ==
  ASSUME NEW b \in Seq(Nat \ {0}), NEW s \in Sessions(b), StateInv(s, b),
         NEW q \in Seq(Nat), NEW h, NEW w, QueueInv(s, q), Taken(q, h, w),
         s.nested = 0, s.state = "SessionEstablished", s.passing = Nothing,
         NEW t, t = [id |-> s.last_used_transfer_id, len |-> b[h],
                     pos |-> 0, acked |-> 0],
         NEW n, Begins(s, n, h, t)
  PROVE  /\ n \in Sessions(b) /\ Prepared(n, b) /\ QueueInv(n, w)
         /\ n.request = h /\ n.results = s.results
         /\ n.last_used_transfer_id = s.last_used_transfer_id + 1
         /\ SameReceiver(s, n) /\ SameLoop(s, n) /\ n.tracker = t
         /\ n.state = "SendXferSegments" /\ n.terminating = s.terminating
<1>1. /\ s.results \in Results(b) /\ s.request = 0 /\ s.last_used_transfer_id \in Nat
      /\ s.ack = Nothing
  BY DEF Sessions, StateInv, Acking
<1>2. h \in Nat /\ h \in 1..Len(b) /\ s.results[h] = "none" /\ h # 0
      /\ h \in DOMAIN s.results
  <2>1. h \in DOMAIN s.results /\ s.results[h] = "none" /\ s.request < h
    BY QueueLeft
  <2>2. h \in Nat
    BY Zenon DEF Taken
  <2>3. DOMAIN s.results = 1..Len(b)
    BY <1>1 DEF Results
  <2> QED
    BY <1>1, <2>1, <2>2, <2>3
<1>3. b[h] \in Nat \ {0}
  BY <1>2, ElementOfSeq
<1>4. t \in Trackers /\ t # Nothing
  BY <1>1, <1>3, NothingIs DEF Trackers
<1>5. PICK k \in Nat : k = s.last_used_transfer_id + 1
  BY <1>1
<1>6. n = [s EXCEPT !.state = "SendXferSegments", !.request = h,
                    !.last_used_transfer_id = k, !.tracker = t]
  BY <1>5 DEF Begins
<1>7. /\ n \in Sessions(b) /\ n.results = s.results /\ n.request = h
      /\ n.last_used_transfer_id = k
      /\ SameReceiver(s, n) /\ SameLoop(s, n) /\ n.tracker = t
      /\ n.state = "SendXferSegments" /\ n.terminating = s.terminating
  BY <1>2, <1>4, <1>6, ZenonT(40) DEF Sessions, States, SameReceiver, SameLoop
<1>8. k - 1 = t.id /\ t.len = b[h] /\ t.acked = 0 /\ t.pos = 0 /\ t.len > 0
  BY <1>1, <1>3, <1>5
<1>9. Prepared(n, b)
  BY <1>1, <1>2, <1>4, <1>7, <1>8
  DEF Prepared, StateInv, SameReceiver, SameLoop, Segmenting, Acking, HandshakeStates
<1>10. QueueInv(s, w)
  BY QueueLeft
<1>11. \A i \in 1..Len(w) : h < w[i]
  BY DEF Taken
<1>12. QueueInv(n, w)
  BY <1>7, <1>10, <1>11 DEF QueueInv
<1> QED
  BY <1>5, <1>7, <1>9, <1>12

Ticks(s, n, c, k, d) == n = [s EXCEPT !.state = c, !.quiet = k, !.nested = d]

\* A tick of the keepalive timer, or a request to close: the state changes only
\* when the session is established.
LEMMA TimerEffect ==
  ASSUME NEW b \in Seq(Nat), NEW s \in Sessions(b), StateInv(s, b),
         s.passing = Nothing, s.state \notin HandshakeStates,
         NEW c \in {s.state, "SendSessTerm"},
         c # s.state => s.state = "SessionEstablished",
         NEW k \in Nat, NEW d \in {s.nested, s.nested + 1},
         NEW n, Ticks(s, n, c, k, d)
  PROVE  /\ n \in Sessions(b) /\ Prepared(n, b)
         /\ SameSender(s, n) /\ SameReceiver(s, n)
         /\ n.state = c /\ n.tracker = s.tracker /\ n.terminating = s.terminating
         /\ n.nested = d /\ n.buffer = s.buffer /\ n.established = s.established
         /\ n.outcome = s.outcome
<1>1. c \in States /\ d \in Nat
  BY DEF Sessions, States
<1>2. /\ n \in Sessions(b)
      /\ SameSender(s, n) /\ SameReceiver(s, n)
      /\ n.state = c /\ n.tracker = s.tracker /\ n.terminating = s.terminating
      /\ n.nested = d /\ n.buffer = s.buffer /\ n.established = s.established
      /\ n.outcome = s.outcome
  BY <1>1 DEF Sessions, SameSender, SameReceiver, Ticks
<1>3. CASE c = s.state
  BY <1>2, <1>3 DEF Prepared, StateInv, SameSender, SameReceiver
<1>4. CASE c # s.state
  <2>1. s.ack = Nothing /\ s.tracker = Nothing
    BY <1>4 DEF StateInv, Segmenting, Acking
  <2> QED
    BY <1>2, <1>4, <2>1
    DEF Prepared, StateInv, SameSender, SameReceiver, Segmenting, Acking, HandshakeStates
<1> QED
  BY <1>2, <1>3, <1>4

-------------------------------------------------------------------------------
(* The types are kept *)

\* What an end is to send.
LEMMA ScenarioType ==
  ASSUME TypeInv, NEW x \in Ends
  PROVE  /\ Bundles(x) \in Seq(Nat \ {0}) /\ Bundles(x) \in Seq(Nat)
         /\ scenario.narrow \subseteq Ends /\ Peer(x) \in Ends /\ Peer(x) # x
         /\ Peer(Peer(x)) = x /\ \A y \in Ends : y = x \/ y = Peer(x)
<1>1. scenario \in [bundles : [Ends -> Seq(Nat \ {0})], narrow : SUBSET Ends,
                    closing : SUBSET Ends, lossy : BOOLEAN]
  BY SessionAssumption DEF TypeInv
<1>2. Bundles(x) \in Seq(Nat \ {0}) /\ scenario.narrow \subseteq Ends
  BY <1>1 DEF Bundles
<1>3. Nat \ {0} \subseteq Nat
  OBVIOUS
<1>4. Bundles(x) \in Seq(Nat)
  BY <1>2, <1>3
<1>5. Peer(x) \in Ends /\ Peer(x) # x /\ Peer(Peer(x)) = x
      /\ \A y \in Ends : y = x \/ y = Peer(x)
  BY DEF Ends, Peer
<1> QED
  BY <1>2, <1>4, <1>5

\* The queue of an end.
LEMMA QueueType ==
  ASSUME ChannelsInv, NEW x \in Ends
  PROVE  /\ send[x] \in Seq(Nat) /\ agent[x].todo \in Seq(Nat) /\ Queue(x) \in Seq(Nat)
         /\ wire[x] \in Seq(Messages) /\ receive[x] \in Seq(Transfers)
         /\ stored[x] \in Seq(Transfers)
<1>1. /\ send[x] \in Seq(Nat) /\ agent[x] \in Agents
      /\ wire[x] \in Seq(Messages) /\ receive[x] \in Seq(Transfers)
      /\ stored[x] \in Seq(Transfers)
  BY DEF ChannelsInv
<1>2. agent[x].todo \in Seq(Nat)
  BY <1>1 DEF Agents
<1>3. send[x] \o agent[x].todo \in Seq(Nat)
  BY <1>1, <1>2, ConcatProperties
<1> QED
  BY <1>1, <1>2, <1>3 DEF Queue

\* A step of end x that sets its session to m.
LEMMA SessionKeeps ==
  ASSUME TypeInv, NEW x \in Ends, NEW m, session' = [session EXCEPT ![x] = m],
         m \in Sessions(Bundles(x)), StateInv(m, Bundles(x)),
         QueueInv(m, Queue(x)'), LimitsInv(m, x \in scenario.narrow),
         Queue(Peer(x))' = Queue(Peer(x)), ChannelsInv', UNCHANGED scenario
  PROVE  TypeInv' /\ session'[x] = m /\ session'[Peer(x)] = session[Peer(x)]
<1>1. session'[x] = m /\ session'[Peer(x)] = session[Peer(x)]
      /\ session' = [y \in Ends |-> session'[y]]
  BY ScenarioType DEF TypeInv
<1>2. \A y \in Ends : Bundles(y)' = Bundles(y)
  BY DEF Bundles
<1>3. SessionInv(x)'
  BY <1>1, <1>2 DEF SessionInv
<1>4. SessionInv(Peer(x))
  BY ScenarioType DEF TypeInv
<1>5. SessionInv(Peer(x))'
  BY <1>1, <1>2, <1>4, ScenarioType DEF SessionInv
<1> QED
  BY <1>1, <1>3, <1>5, ScenarioType DEF TypeInv

\* A turn of end x that starts from n.
LEMMA TurnKeeps ==
  ASSUME TypeInv, NEW x \in Ends, NEW n \in Sessions(Bundles(x)), Turn(x, n),
         Prepared(n, Bundles(x)), QueueInv(n, Queue(x)'),
         n.nested <= MaxNested, n.buffer = session[x].buffer \/ n.buffer = <<>>,
         Queue(Peer(x))' = Queue(Peer(x)), ChannelsInv', UNCHANGED scenario
  PROVE  TypeInv' /\ Headed(n, session'[x]) /\ session'[Peer(x)] = session[Peer(x)]
<1>1. PICK m : m = LoopHead([n EXCEPT !.flushing = FALSE])
  OBVIOUS
<1>2. Bundles(x) \in Seq(Nat) /\ Queue(x)' \in Seq(Nat) /\ SessionInv(x)
  <2>1. send'[x] \in Seq(Nat) /\ agent'[x] \in Agents
    BY DEF ChannelsInv
  <2>2. agent'[x].todo \in Seq(Nat)
    BY <2>1 DEF Agents
  <2>3. send'[x] \o agent'[x].todo \in Seq(Nat)
    BY <2>1, <2>2, ConcatProperties
  <2> QED
    BY <2>3, ScenarioType DEF TypeInv, Queue
<1>3. m \in Sessions(Bundles(x)) /\ Headed(n, m)
  BY <1>1, <1>2, HeadType, HeadFields
<1>4. StateInv(m, Bundles(x)) /\ QueueInv(m, Queue(x)')
  BY <1>2, <1>3, HeadState, HeadQueue
<1>5. session' = [session EXCEPT ![x] = m]
  BY <1>1 DEF Turn
<1>6. LimitsInv(m, x \in scenario.narrow)
  <2>1. m.nested = n.nested /\ m.buffer = n.buffer /\ m.flushing = FALSE
    BY <1>3 DEF Headed
  <2>2. Len(m.buffer) <= MaxBuffer
    BY <1>2, <2>1, SessionAssumption DEF SessionInv, LimitsInv
  <2> QED
    BY <1>2, <2>1, <2>2 DEF SessionInv, LimitsInv
<1>7. TypeInv' /\ session'[x] = m /\ session'[Peer(x)] = session[Peer(x)]
  BY <1>3, <1>4, <1>5, <1>6, SessionKeeps
<1> QED
  BY <1>3, <1>7

-------------------------------------------------------------------------------
(* What the steps do to the pipes *)

\* A message is added to the buffer.
LEMMA PipeBuffered ==
  ASSUME NEW S, NEW u \in Seq(S), NEW v \in Seq(S), NEW m \in S
  PROVE  u \o Append(v, m) = Append(u \o v, m)
OBVIOUS

\* A message goes past an empty buffer.
LEMMA PipeThrough ==
  ASSUME NEW S, NEW u \in Seq(S), NEW v, v = <<>>, NEW m \in S
  PROVE  Append(u, m) \o v = Append(u \o v, m)
OBVIOUS

\* A message moves from the buffer to the socket.
LEMMA PipeFlushed ==
  ASSUME NEW S, NEW u \in Seq(S), NEW v \in Seq(S), v # <<>>
  PROVE  Append(u, Head(v)) \o Tail(v) = u \o v
<1>1. PICK a : a = Append(u, Head(v)) \o Tail(v)
  OBVIOUS
<1>2. PICK c : c = u \o v
  OBVIOUS
<1>3. /\ Len(u) \in Nat /\ Len(v) \in Nat /\ Len(v) > 0 /\ Tail(v) \in Seq(S)
      /\ Append(u, Head(v)) \in Seq(S) /\ Len(Tail(v)) = Len(v) - 1
      /\ Len(Append(u, Head(v))) = Len(u) + 1 /\ Head(v) \in S
  OBVIOUS
<1>4. a \in Seq(S) /\ c \in Seq(S) /\ Len(a) = Len(u) + Len(v) /\ Len(c) = Len(u) + Len(v)
  BY <1>1, <1>2, <1>3, ConcatProperties
<1>5. ASSUME NEW i \in 1..(Len(u) + Len(v))
      PROVE  a[i] = c[i]
  <2>1. CASE i <= Len(u)
    BY <1>1, <1>2, <1>3, <2>1
  <2>2. CASE i = Len(u) + 1
    BY <1>1, <1>2, <1>3, <2>2
  <2>3. CASE i > Len(u) + 1
    <3>1. a[i] = Tail(v)[i - (Len(u) + 1)]
      BY <1>1, <1>3, <2>3, ConcatProperties
    <3>2. i - (Len(u) + 1) \in 1..(Len(v) - 1)
      BY <1>3, <2>3
    <3>3. Tail(v)[i - (Len(u) + 1)] = v[i - (Len(u) + 1) + 1]
      BY <1>3, <3>2
    <3>4. c[i] = v[i - Len(u)]
      BY <1>2, <1>3, <2>3, ConcatProperties
    <3>5. i - (Len(u) + 1) + 1 = i - Len(u)
      BY <1>3
    <3> QED
      BY <3>1, <3>3, <3>4, <3>5
  <2> QED
    BY <1>3, <2>1, <2>2, <2>3
<1>6. a = c
  BY <1>4, <1>5, SeqEqual
<1> QED
  BY <1>1, <1>2, <1>6

\* The first message is read.
LEMMA PipeRead ==
  ASSUME NEW S, NEW u \in Seq(S), NEW v \in Seq(S), u # <<>>
  PROVE  /\ Tail(u) \o v = Tail(u \o v) /\ Head(u \o v) = Head(u) /\ u \o v # <<>>
         /\ u \o v \in Seq(S) /\ Head(u) \in S
<1>3. /\ Len(u) \in Nat /\ Len(v) \in Nat /\ Len(u) > 0 /\ Tail(u) \in Seq(S)
      /\ Len(Tail(u)) = Len(u) - 1 /\ u \o v \in Seq(S) /\ Len(u \o v) = Len(u) + Len(v)
      /\ Head(u) \in S
  OBVIOUS
<1>4. Head(u \o v) = Head(u) /\ u \o v # <<>>
  BY <1>3
<1>1. PICK a : a = Tail(u) \o v
  OBVIOUS
<1>2. PICK c : c = Tail(u \o v)
  OBVIOUS
<1>5. /\ a \in Seq(S) /\ c \in Seq(S) /\ Len(a) = Len(u) + Len(v) - 1
      /\ Len(c) = Len(u) + Len(v) - 1
  BY <1>1, <1>2, <1>3, <1>4, ConcatProperties
<1>6. ASSUME NEW i \in 1..(Len(u) + Len(v) - 1)
      PROVE  a[i] = c[i]
  <2>1. c[i] = (u \o v)[i + 1] /\ i + 1 \in 1..(Len(u) + Len(v))
    BY <1>2, <1>3, <1>4
  <2>2. CASE i <= Len(u) - 1
    <3>1. a[i] = Tail(u)[i] /\ Tail(u)[i] = u[i + 1]
      BY <1>1, <1>3, <2>2
    <3>2. (u \o v)[i + 1] = u[i + 1]
      BY <1>3, <2>2
    <3> QED
      BY <2>1, <3>1, <3>2
  <2>3. CASE i > Len(u) - 1
    <3>1. a[i] = v[i - (Len(u) - 1)]
      BY <1>1, <1>3, <2>3, ConcatProperties
    <3>2. (u \o v)[i + 1] = v[i + 1 - Len(u)]
      BY <1>3, <2>1, <2>3, ConcatProperties
    <3>3. i - (Len(u) - 1) = i + 1 - Len(u)
      BY <1>3
    <3> QED
      BY <2>1, <3>1, <3>2, <3>3
  <2> QED
    BY <1>3, <2>2, <2>3
<1>7. a = c
  BY <1>5, <1>6, SeqEqual
<1> QED
  BY <1>1, <1>2, <1>3, <1>4, <1>7

\* Only the wire changes.
LEMMA WireKeeps ==
  ASSUME ChannelsInv, NEW x \in Ends, NEW u \in Seq(Messages),
         wire' = [wire EXCEPT ![x] = u], UNCHANGED <<agent, send, receive, stored>>
  PROVE  ChannelsInv'
BY DEF ChannelsInv

\* What a step of end x leaves alone.
Frame(x) ==
  /\ UNCHANGED scenario /\ session'[Peer(x)] = session[Peer(x)]
  /\ \A z \in Ends : Queue(z)' = Queue(z) /\ Received(z)' = Received(z)

\* The queues and the transfers that have arrived are left alone.
LEMMA FrameIs ==
  ASSUME UNCHANGED <<agent, send, receive, stored>>
  PROVE  \A z \in Ends : Queue(z)' = Queue(z) /\ Received(z)' = Received(z)
BY DEF Queue, Received

\* The bundles to be taken do not depend on the rest of the session.
LEMMA QueueSame ==
  ASSUME NEW s, NEW n, NEW q, QueueInv(s, q), n.request = s.request, n.results = s.results
  PROVE  QueueInv(n, q)
BY DEF QueueInv

\* A message is written to the socket.
LEMMA Written ==
  ASSUME TypeInv, NEW x \in Ends, WriteThrough(x)
  PROVE  /\ TypeInv' /\ Frame(x) /\ IsWritable(session[x])
         /\ Headed(send_complete(Fed(session[x])), session'[x])
         /\ Pipe(x)' = Append(Pipe(x), MessageOf(session[x]))
         /\ Pipe(Peer(x))' = Pipe(Peer(x))
<1> DEFINE s == session[x]
           b == Bundles(x)
<1>1. SessionInv(x) /\ ChannelsInv /\ b \in Seq(Nat)
  BY ScenarioType DEF TypeInv
<1>2. s \in Sessions(b) /\ StateInv(s, b) /\ QueueInv(s, Queue(x)) /\ IsWritable(s)
  BY <1>1 DEF SessionInv, WriteThrough
<1>3. PICK f : f = Fed(s)
  OBVIOUS
<1>4. /\ f \in Sessions(b) /\ StateInv(f, b) /\ f = [s EXCEPT !.tracker = f.tracker]
  BY <1>1, <1>2, <1>3, FedEffect
<1>5. f.nested = s.nested /\ f.state = s.state /\ f.buffer = s.buffer
      /\ f.request = s.request /\ f.results = s.results
  BY <1>2, <1>4 DEF Sessions
<1>6. PICK n : n = send_complete(f)
  OBVIOUS
<1>7. s.nested > 0 \/ s.state \notin Waits \cup {"ConnectionClose"}
  BY <1>2 DEF IsWritable, Waits
<1>8. n \in Sessions(b) /\ Prepared(n, b) /\ Kept(f, n) /\ n.nested <= f.nested
  BY <1>1, <1>4, <1>5, <1>6, <1>7, CompleteEffect
<1>9. QueueInv(n, Queue(x))
  BY <1>2, <1>5, <1>8, QueueSame DEF Kept
<1>10. n.nested <= MaxNested
  BY <1>1, <1>2, <1>5, <1>8, SessionAssumption DEF SessionInv, LimitsInv, Sessions
<1>11. MessageOf(s) \in Messages
  BY <1>1, <1>2, MessageType
<1>12. wire[x] \in Seq(Messages) /\ s.buffer = <<>>
  BY <1>1, QueueType DEF WriteThrough
<1>13. ChannelsInv'
  <2>1. Append(wire[x], MessageOf(s)) \in Seq(Messages)
    BY <1>11, <1>12
  <2> QED
    BY <1>1, <2>1, WireKeeps DEF WriteThrough
<1>14. \A z \in Ends : Queue(z)' = Queue(z) /\ Received(z)' = Received(z)
  BY FrameIs DEF WriteThrough
<1>15. Turn(x, n) /\ UNCHANGED scenario
  BY <1>3, <1>6 DEF WriteThrough
<1>16. TypeInv' /\ Headed(n, session'[x]) /\ session'[Peer(x)] = session[Peer(x)]
  BY <1>5, <1>8, <1>9, <1>10, <1>13, <1>14, <1>15, TurnKeeps, ScenarioType DEF Kept
<1>17. session'[x].buffer = <<>>
  BY <1>5, <1>8, <1>12, <1>16 DEF Kept, Headed
<1>18. wire'[x] = Append(wire[x], MessageOf(s)) /\ wire'[Peer(x)] = wire[Peer(x)]
  BY <1>1, ScenarioType DEF WriteThrough, ChannelsInv
<1>19. Pipe(x)' = Append(Pipe(x), MessageOf(s))
  BY <1>11, <1>12, <1>17, <1>18, PipeThrough DEF Pipe
<1>20. Pipe(Peer(x))' = Pipe(Peer(x))
  BY <1>16, <1>18 DEF Pipe
<1> QED
  BY <1>2, <1>3, <1>6, <1>14, <1>15, <1>16, <1>19, <1>20 DEF Frame

\* In the handshake nothing but its messages is sent.
LEMMA EarlyPipe ==
  ASSUME TypeInv, HandshakeInv, NEW x \in Ends, session[x].state \in HandshakeStates
  PROVE  /\ \A i \in 1..Len(Pipe(x)) : Pipe(x)[i].type \in HandshakeTypes
         /\ Pipe(x) = wire[x] /\ ~Congested(x) /\ session[x].buffer = <<>>
<1>1. session[x].buffer = <<>> /\ wire[x] \in Seq(Messages)
  BY QueueType DEF TypeInv, SessionInv, StateInv
<1>2. Pipe(x) = wire[x]
  BY <1>1 DEF Pipe
<1>3. \A i \in 1..Len(Pipe(x)) : Pipe(x)[i].type \in HandshakeTypes
  <2>1. Pipe(x) = <<>> \/ OnlyHas(Pipe(x), "ContactHeader") \/ OnlyHas(Pipe(x), "SessInit")
    BY Zenon DEF HandshakeInv, Joint, Ends
  <2> QED
    BY <2>1 DEF OnlyHas, HandshakeTypes
<1>4. ~Congested(x)
  BY <1>2, <1>3 DEF Congested, HandshakeTypes
<1> QED
  BY <1>1, <1>2, <1>3, <1>4

\* A message is put into the buffer and waits for the socket.
LEMMA Buffered ==
  ASSUME TypeInv, HandshakeInv, NEW x \in Ends, WriteBlocks(x)
  PROVE  /\ TypeInv' /\ Frame(x) /\ IsWritable(session[x]) /\ x \in scenario.narrow
         /\ session'[x] = [Fed(session[x]) EXCEPT !.flushing = TRUE,
                                                  !.buffer = session'[x].buffer]
         /\ Pipe(x)' = Append(Pipe(x), MessageOf(session[x]))
         /\ Pipe(Peer(x))' = Pipe(Peer(x))
         /\ session[x].buffer # <<>> \/ Congested(x)
<1> DEFINE s == session[x]
           b == Bundles(x)
<1>1. SessionInv(x) /\ ChannelsInv /\ b \in Seq(Nat)
  BY ScenarioType DEF TypeInv
<1>2. s \in Sessions(b) /\ StateInv(s, b) /\ QueueInv(s, Queue(x)) /\ IsWritable(s)
      /\ LimitsInv(s, x \in scenario.narrow)
  BY <1>1 DEF SessionInv, WriteBlocks
<1>3. x \in scenario.narrow /\ Len(s.buffer) < MaxBuffer
      /\ (s.buffer # <<>> \/ Congested(x))
  BY <1>2 DEF WriteBlocks, Congested, LimitsInv
<1>4. PICK f : f = Fed(s)
  OBVIOUS
<1>5. /\ f \in Sessions(b) /\ StateInv(f, b) /\ f = [s EXCEPT !.tracker = f.tracker]
  BY <1>1, <1>2, <1>4, FedEffect
<1>6. f.nested = s.nested /\ f.state = s.state /\ f.buffer = s.buffer
      /\ f.request = s.request /\ f.results = s.results
  BY <1>2, <1>5 DEF Sessions
<1>7. MessageOf(s) \in Messages
  BY <1>1, <1>2, MessageType
<1>8. s.buffer \in Seq(Messages) /\ s.nested \in Nat
  BY <1>2 DEF Sessions
<1>9. PICK u : u = Append(s.buffer, MessageOf(s))
  OBVIOUS
<1>10. u \in Seq(Messages) /\ Len(u) <= MaxBuffer
  BY <1>3, <1>7, <1>8, <1>9, SessionAssumption
<1>11. PICK m : m = [f EXCEPT !.flushing = TRUE, !.buffer = u]
  OBVIOUS
<1>12. session' = [session EXCEPT ![x] = m]
  <2>1. session' = [session EXCEPT ![x] =
          [f EXCEPT !.flushing = TRUE, !.buffer = Append(@, MessageOf(s))]]
    BY <1>4, Zenon DEF WriteBlocks
  <2>2. [f EXCEPT !.flushing = TRUE, !.buffer = Append(@, MessageOf(s))] = m
    BY <1>5, <1>6, <1>9, <1>11 DEF Sessions
  <2> QED
    BY <2>1, <2>2
<1>13. /\ m \in Sessions(b) /\ m.flushing = TRUE /\ m.buffer = u /\ m.nested = f.nested
       /\ m.state = f.state /\ m.tracker = f.tracker /\ m.ack = f.ack
       /\ m.passing = f.passing /\ m.request = f.request /\ m.results = f.results
       /\ m.last_used_transfer_id = f.last_used_transfer_id
       /\ m.terminating = f.terminating /\ m.established = f.established
  BY <1>5, <1>10, <1>11 DEF Sessions
<1>14. s.nested > 0 \/ s.state \notin Waits \cup {"ConnectionClose"}
  BY <1>2 DEF IsWritable, Waits
<1>15. s.state \notin HandshakeStates
  BY <1>3, EarlyPipe
<1>16. f.passing = Nothing => m.passing = Nothing
  BY <1>13
<1>17. StateInv(m, b)
  BY <1>5, <1>6, <1>13, <1>14, <1>15 DEF StateInv
<1>18. QueueInv(m, Queue(x))
  BY <1>2, <1>6, <1>13, QueueSame
<1>19. LimitsInv(m, x \in scenario.narrow)
  BY <1>2, <1>3, <1>6, <1>10, <1>13 DEF LimitsInv
<1>20. UNCHANGED <<scenario, agent, send, receive, wire, stored>>
  BY DEF WriteBlocks
<1>21. ChannelsInv'
  BY <1>1, <1>20 DEF ChannelsInv
<1>22. \A z \in Ends : Queue(z)' = Queue(z) /\ Received(z)' = Received(z)
  BY <1>20, FrameIs
<1>23. TypeInv' /\ session'[x] = m /\ session'[Peer(x)] = session[Peer(x)]
  <2>1. /\ QueueInv(m, Queue(x)') /\ Queue(Peer(x))' = Queue(Peer(x))
        /\ UNCHANGED scenario
    BY <1>18, <1>20, <1>22, ScenarioType
  <2> QED
    BY <1>12, <1>13, <1>17, <1>19, <1>21, <2>1, SessionKeeps
<1>24. wire[x] \in Seq(Messages)
  BY <1>1, QueueType
<1>25. Pipe(x)' = Append(Pipe(x), MessageOf(s))
  <2>1. ASSUME NEW w \in Seq(Messages), NEW v \in Seq(Messages), NEW g \in Messages
        PROVE  w \o Append(v, g) = Append(w \o v, g)
    BY PipeBuffered
  <2> QED
    BY <1>7, <1>8, <1>9, <1>13, <1>20, <1>23, <1>24, <2>1, ZenonT(40) DEF Pipe
<1>26. Pipe(Peer(x))' = Pipe(Peer(x))
  BY <1>20, <1>23 DEF Pipe
<1>27. session'[x] = [Fed(s) EXCEPT !.flushing = TRUE, !.buffer = session'[x].buffer]
  BY <1>4, <1>11, <1>13, <1>23
<1> QED
  BY <1>2, <1>3, <1>20, <1>22, <1>23, <1>25, <1>26, <1>27 DEF Frame

\* The socket takes a message of the buffer.
LEMMA Flushed ==
  ASSUME TypeInv, NEW x \in Ends, Flush(x)
  PROVE  /\ TypeInv' /\ Frame(x) /\ x \in scenario.narrow /\ session[x].buffer # <<>>
         /\ Pipe(x)' = Pipe(x) /\ Pipe(Peer(x))' = Pipe(Peer(x))
         /\ \E s \in Sessions(Bundles(x)) :
              /\ s = [session[x] EXCEPT !.buffer = Tail(@)] /\ StateInv(s, Bundles(x))
              /\ \/ session'[x] = s
                 \/ /\ s.nested > 0 \/ s.state \notin Waits \cup {"ConnectionClose"}
                    /\ Headed(send_complete(s), session'[x])
<1> DEFINE b == Bundles(x)
<1>1. SessionInv(x) /\ ChannelsInv /\ b \in Seq(Nat)
  BY ScenarioType DEF TypeInv
<1>2. PICK o : o = session[x]
  OBVIOUS
<1>3. /\ o \in Sessions(b) /\ StateInv(o, b) /\ QueueInv(o, Queue(x))
      /\ LimitsInv(o, x \in scenario.narrow) /\ o.buffer # <<>>
  BY <1>1, <1>2 DEF SessionInv, Flush
<1>4. x \in scenario.narrow /\ o.buffer \in Seq(Messages) /\ o.nested \in Nat
  BY <1>3 DEF LimitsInv, Sessions
<1>5. PICK u : u = Tail(o.buffer)
  OBVIOUS
<1>6. u \in Seq(Messages) /\ Len(u) <= MaxBuffer /\ Len(u) < Len(o.buffer)
      /\ Head(o.buffer) \in Messages
  BY <1>3, <1>4, <1>5, SessionAssumption DEF LimitsInv
<1>7. PICK s : s = [o EXCEPT !.buffer = u]
  OBVIOUS
<1>8. /\ s \in Sessions(b) /\ s.buffer = u /\ s.nested = o.nested
      /\ s.state = o.state /\ s.tracker = o.tracker /\ s.ack = o.ack
      /\ s.passing = o.passing /\ s.request = o.request /\ s.results = o.results
      /\ s.last_used_transfer_id = o.last_used_transfer_id
      /\ s.terminating = o.terminating /\ s.established = o.established
      /\ s.flushing = o.flushing
  BY <1>3, <1>6, <1>7 DEF Sessions
<1>9. o.state \notin HandshakeStates
  BY <1>3 DEF StateInv
<1>10. StateInv(s, b)
  BY <1>3, <1>8, <1>9 DEF StateInv
<1>11. QueueInv(s, Queue(x))
  BY <1>3, <1>8, QueueSame
<1>12. LimitsInv(s, x \in scenario.narrow)
  BY <1>3, <1>4, <1>6, <1>8 DEF LimitsInv
<1>13. s = [session[x] EXCEPT !.buffer = Tail(@)]
  BY <1>2, <1>5, <1>7
<1>14. /\ wire' = [wire EXCEPT ![x] = Append(@, Head(o.buffer))]
       /\ \/ s.flushing /\ Turn(x, send_complete(s))
          \/ session' = [session EXCEPT ![x] = s]
       /\ UNCHANGED <<scenario, agent, send, receive, stored>>
  BY <1>2, <1>13, Zenon DEF Flush
<1>15. wire[x] \in Seq(Messages)
  BY <1>1, QueueType
<1>16. ChannelsInv'
  <2>1. Append(wire[x], Head(o.buffer)) \in Seq(Messages)
    BY <1>6, <1>15
  <2> QED
    BY <1>1, <1>14, <2>1, WireKeeps
<1>17. \A z \in Ends : Queue(z)' = Queue(z) /\ Received(z)' = Received(z)
  BY <1>14, FrameIs
<1>18. /\ TypeInv' /\ session'[Peer(x)] = session[Peer(x)] /\ session'[x].buffer = u
       /\ \/ session'[x] = s
          \/ /\ s.nested > 0 \/ s.state \notin Waits \cup {"ConnectionClose"}
             /\ Headed(send_complete(s), session'[x])
  <2>1. CASE session' = [session EXCEPT ![x] = s]
    <3>1. TypeInv' /\ session'[x] = s /\ session'[Peer(x)] = session[Peer(x)]
      <4>1. /\ QueueInv(s, Queue(x)') /\ Queue(Peer(x))' = Queue(Peer(x))
            /\ UNCHANGED scenario
        BY <1>11, <1>14, <1>17, ScenarioType
      <4> QED
        BY <1>8, <1>10, <1>12, <1>16, <2>1, <4>1, SessionKeeps
    <3> QED
      BY <1>8, <3>1
  <2>2. CASE s.flushing /\ Turn(x, send_complete(s))
    <3>1. PICK n : n = send_complete(s)
      OBVIOUS
    <3>2. s.nested > 0 \/ s.state \notin Waits \cup {"ConnectionClose"}
      BY <1>10, <2>2 DEF StateInv
    <3>3. n \in Sessions(b) /\ Prepared(n, b) /\ Kept(s, n) /\ n.nested <= s.nested
      BY <1>1, <1>8, <1>10, <3>1, <3>2, CompleteEffect
    <3>4. QueueInv(n, Queue(x))
      BY <1>11, <3>3, QueueSame DEF Kept
    <3>5. n.nested <= MaxNested
      BY <1>3, <1>4, <1>8, <3>3, SessionAssumption DEF LimitsInv, Sessions
    <3>6. PICK m : m = LoopHead([n EXCEPT !.flushing = FALSE])
      OBVIOUS
    <3>7. m \in Sessions(b) /\ Headed(n, m)
      BY <1>1, <3>3, <3>6, HeadType, HeadFields
    <3>8. QueueInv(m, Queue(x)) /\ StateInv(m, b)
      BY <1>1, <3>3, <3>4, <3>7, HeadState, HeadQueue, QueueType
    <3>9. m.buffer = u /\ m.nested = n.nested
      BY <1>8, <3>3, <3>7 DEF Kept, Headed
    <3>10. LimitsInv(m, x \in scenario.narrow)
      BY <1>4, <1>6, <3>5, <3>9 DEF LimitsInv
    <3>11. session' = [session EXCEPT ![x] = m]
      BY <2>2, <3>1, <3>6 DEF Turn
    <3>12. TypeInv' /\ session'[x] = m /\ session'[Peer(x)] = session[Peer(x)]
      <4>1. /\ QueueInv(m, Queue(x)') /\ Queue(Peer(x))' = Queue(Peer(x))
            /\ UNCHANGED scenario
        BY <1>14, <1>17, <3>8, ScenarioType
      <4> QED
        BY <1>16, <3>7, <3>8, <3>10, <3>11, <4>1, SessionKeeps
    <3> QED
      BY <3>1, <3>2, <3>7, <3>9, <3>12
  <2> QED
    BY <1>14, <2>1, <2>2
<1>19. wire'[x] = Append(wire[x], Head(o.buffer)) /\ wire'[Peer(x)] = wire[Peer(x)]
  BY <1>1, <1>14, ScenarioType DEF ChannelsInv
<1>20. Pipe(x)' = Pipe(x)
  BY <1>2, <1>3, <1>4, <1>5, <1>15, <1>18, <1>19, PipeFlushed, ZenonT(40) DEF Pipe
<1>21. Pipe(Peer(x))' = Pipe(Peer(x))
  BY <1>18, <1>19 DEF Pipe
<1> QED
  BY <1>2, <1>3, <1>4, <1>8, <1>10, <1>13, <1>14, <1>17, <1>18, <1>20, <1>21 DEF Frame

\* The first message of the peer is read.
LEMMA ReadIs ==
  ASSUME TypeInv, NEW x \in Ends, NEW T, Reads(x, T)
  PROVE  /\ ChannelsInv' /\ UNCHANGED <<scenario, agent, send, receive, stored>>
         /\ session[x] \in Sessions(Bundles(x)) /\ StateInv(session[x], Bundles(x))
         /\ QueueInv(session[x], Queue(x)) /\ IsReadable(session[x])
         /\ session[x].passing = Nothing /\ Bundles(x) \in Seq(Nat)
         /\ Pipe(Peer(x)) # <<>> /\ Pipe(Peer(x)) \in Seq(Messages)
         /\ Head(wire[Peer(x)]) = Head(Pipe(Peer(x))) /\ Head(wire[Peer(x)]) \in Messages
         /\ Head(Pipe(Peer(x))).type \in T
         /\ session'[Peer(x)] = session[Peer(x)] => Pipe(Peer(x))' = Tail(Pipe(Peer(x)))
         /\ session'[x].buffer = session[x].buffer => Pipe(x)' = Pipe(x)
<1> DEFINE y == Peer(x)
<1>1. SessionInv(x) /\ SessionInv(y) /\ ChannelsInv /\ Bundles(x) \in Seq(Nat)
      /\ y \in Ends /\ y # x
  BY ScenarioType DEF TypeInv
<1>2. /\ Running(x) /\ IsReadable(session[x])
      /\ wire[y] # <<>> /\ Head(wire[y]).type \in T
      /\ wire' = [wire EXCEPT ![y] = Tail(@)]
      /\ UNCHANGED <<scenario, agent, send, receive, stored>>
  BY Zenon DEF Reads
<1>3. wire[y] \in Seq(Messages) /\ session[y].buffer \in Seq(Messages)
  BY <1>1, QueueType DEF SessionInv, Sessions
<1>4. ASSUME NEW u \in Seq(Messages), NEW v \in Seq(Messages), u # <<>>
      PROVE  /\ Tail(u) \o v = Tail(u \o v) /\ Head(u \o v) = Head(u) /\ u \o v # <<>>
             /\ u \o v \in Seq(Messages) /\ Head(u) \in Messages /\ Tail(u) \in Seq(Messages)
  BY <1>4, PipeRead
<1>5. ChannelsInv'
  <2>1. Tail(wire[y]) \in Seq(Messages)
    BY <1>2, <1>3, <1>4
  <2> QED
    BY <1>1, <1>2, <2>1, WireKeeps
<1>6. wire'[y] = Tail(wire[y]) /\ wire'[x] = wire[x]
  BY <1>1, <1>2 DEF ChannelsInv
<1>7. session'[y] = session[y] => Pipe(y)' = Tail(Pipe(y))
  BY <1>2, <1>3, <1>4, <1>6 DEF Pipe
<1>8. session'[x].buffer = session[x].buffer => Pipe(x)' = Pipe(x)
  BY <1>6 DEF Pipe
<1>9. /\ Pipe(y) # <<>> /\ Pipe(y) \in Seq(Messages) /\ Head(wire[y]) = Head(Pipe(y))
      /\ Head(wire[y]) \in Messages
  BY <1>2, <1>3, <1>4 DEF Pipe
<1>10. session[x].passing = Nothing
  BY <1>2 DEF Running
<1> QED
  BY <1>1, <1>2, <1>5, <1>7, <1>8, <1>9, <1>10 DEF SessionInv

\* The pipes after a message was read.
ReadBy(x) == Pipe(Peer(x))' = Tail(Pipe(Peer(x))) /\ Pipe(x)' = Pipe(x)

\* A message is read and the loop goes on from n.
LEMMA ReadTurn ==
  ASSUME TypeInv, NEW x \in Ends, NEW T, Reads(x, T), NEW n \in Sessions(Bundles(x)),
         Prepared(n, Bundles(x)), SameSender(session[x], n), SameLoop(session[x], n),
         Turn(x, n)
  PROVE  TypeInv' /\ Frame(x) /\ Headed(n, session'[x]) /\ ReadBy(x)
<1>1. /\ ChannelsInv' /\ UNCHANGED <<scenario, agent, send, receive, stored>>
      /\ session[x] \in Sessions(Bundles(x)) /\ QueueInv(session[x], Queue(x))
      /\ session'[Peer(x)] = session[Peer(x)] => Pipe(Peer(x))' = Tail(Pipe(Peer(x)))
      /\ session'[x].buffer = session[x].buffer => Pipe(x)' = Pipe(x)
  BY ReadIs
<1>2. QueueInv(n, Queue(x))
  BY <1>1, QueueSame DEF SameSender
<1>3. \A z \in Ends : Queue(z)' = Queue(z) /\ Received(z)' = Received(z)
  BY <1>1, FrameIs
<1>4. QueueInv(n, Queue(x)') /\ Queue(Peer(x))' = Queue(Peer(x)) /\ UNCHANGED scenario
  BY <1>1, <1>2, <1>3, ScenarioType
<1>5. n.nested <= MaxNested /\ n.buffer = session[x].buffer
  BY DEF SameLoop, TypeInv, SessionInv, LimitsInv
<1>6. TypeInv' /\ Headed(n, session'[x]) /\ session'[Peer(x)] = session[Peer(x)]
  BY <1>1, <1>4, <1>5, TurnKeeps
<1>7. session'[x].buffer = session[x].buffer
  BY <1>5, <1>6 DEF Headed
<1> QED
  BY <1>1, <1>3, <1>6, <1>7 DEF Frame, ReadBy

\* The loop ends with outcome o.
LEMMA Finished ==
  ASSUME TypeInv, NEW x \in Ends, NEW o \in {"closed", "failed", "panicked"}, Finish(x, o),
         ChannelsInv', UNCHANGED <<scenario, agent, send, receive, stored>>
  PROVE  /\ TypeInv' /\ Frame(x)
         /\ SameSender(session[x], session'[x]) /\ SameReceiver(session[x], session'[x])
         /\ session'[x].state = session[x].state /\ session'[x].buffer = session[x].buffer
         /\ session'[x].tracker = session[x].tracker
         /\ session'[x].terminating = session[x].terminating
         /\ session'[x].outcome = o
<1>1. PICK s : s = session[x]
  OBVIOUS
<1>2. PICK m : m = [s EXCEPT !.outcome = o]
  OBVIOUS
<1>3. /\ s \in Sessions(Bundles(x)) /\ StateInv(s, Bundles(x)) /\ QueueInv(s, Queue(x))
      /\ LimitsInv(s, x \in scenario.narrow)
  BY <1>1 DEF TypeInv, SessionInv
<1>4. /\ m \in Sessions(Bundles(x)) /\ m.outcome = o
      /\ SameSender(s, m) /\ SameReceiver(s, m) /\ m.state = s.state /\ m.buffer = s.buffer
      /\ m.tracker = s.tracker /\ m.terminating = s.terminating
      /\ m.nested = s.nested /\ m.flushing = s.flushing /\ m.established = s.established
  BY <1>2, <1>3 DEF Sessions, SameSender, SameReceiver
<1>5. StateInv(m, Bundles(x))
  BY <1>3, <1>4 DEF StateInv, SameSender, SameReceiver
<1>6. LimitsInv(m, x \in scenario.narrow)
  BY <1>3, <1>4 DEF LimitsInv
<1>7. \A z \in Ends : Queue(z)' = Queue(z) /\ Received(z)' = Received(z)
  BY FrameIs
<1>8. QueueInv(m, Queue(x)') /\ Queue(Peer(x))' = Queue(Peer(x)) /\ UNCHANGED scenario
  <2>1. QueueInv(m, Queue(x))
    BY <1>3, <1>4, QueueSame DEF SameSender
  <2> QED
    BY <1>7, <2>1, ScenarioType
<1>9. session' = [session EXCEPT ![x] = m]
  BY <1>1, <1>2 DEF Finish
<1>10. TypeInv' /\ session'[x] = m /\ session'[Peer(x)] = session[Peer(x)]
  BY <1>4, <1>5, <1>6, <1>8, <1>9, SessionKeeps
<1> QED
  BY <1>1, <1>4, <1>7, <1>8, <1>10 DEF Frame

-------------------------------------------------------------------------------
(* The handshake is kept *)

Without(u) == \A i \in 1..Len(u) : u[i].type \notin HandshakeTypes

\* Adding another message, or reading the first, brings no message of the handshake.
LEMMA WithoutKept ==
  ASSUME NEW u \in Seq(Messages), Without(u)
  PROVE  /\ \A m \in Messages : m.type \notin HandshakeTypes => Without(Append(u, m))
         /\ u # <<>> => Without(Tail(u)) /\ Head(u).type \notin HandshakeTypes
<1>1. ASSUME NEW m \in Messages, m.type \notin HandshakeTypes
      PROVE  Without(Append(u, m))
  BY <1>1 DEF Without
<1>2. ASSUME u # <<>>
      PROVE  Without(Tail(u)) /\ Head(u).type \notin HandshakeTypes
  BY <1>2 DEF Without
<1> QED
  BY <1>1, <1>2

\* A later step of end x: what it sends and reads is not about the handshake.
Later(u, u2) ==
  u2 = u \/ \E m \in Messages : m.type \notin HandshakeTypes /\ u2 = Append(u, m)
Read(v, v2) == v2 = v \/ (v # <<>> /\ v2 = Tail(v))

\* A later step of the active end.
LEMMA LaterActive ==
  ASSUME NEW a, NEW p, NEW u \in Seq(Messages), NEW v \in Seq(Messages), Joint(a, p, u, v),
         a \notin HandshakeStates, NEW c, c \notin HandshakeStates,
         NEW u2, Later(u, u2), NEW v2, Read(v, v2)
  PROVE  Joint(c, p, u2, v2)
<1>1. p \notin HandshakeStates /\ Without(u) /\ Without(v)
  BY DEF Joint, HandshakeStates, Without
<1>2. Without(u2) /\ Without(v2)
  BY <1>1, WithoutKept DEF Later, Read
<1> QED
  BY <1>1, <1>2 DEF Joint, Without

\* A later step of the passive end.
LEMMA LaterPassive ==
  ASSUME NEW a, NEW p, NEW u \in Seq(Messages), NEW v \in Seq(Messages), Joint(a, p, u, v),
         p \notin HandshakeStates, NEW c, c \notin HandshakeStates,
         NEW v2, Later(v, v2), NEW u2, Read(u, u2)
  PROVE  Joint(a, c, u2, v2)
<1>1. CASE a \notin HandshakeStates
  <2>1. Without(u) /\ Without(v)
    BY <1>1 DEF Joint, HandshakeStates, Without
  <2>2. Without(u2) /\ Without(v2)
    BY <2>1, WithoutKept DEF Later, Read
  <2> QED
    BY <1>1, <2>2 DEF Joint, Without
<1>2. CASE a \in HandshakeStates
  <2>1. /\ a = "ActiveWaitSessInit" /\ u = <<>> /\ v # <<>> /\ v[1].type = "SessInit"
        /\ \A i \in 2..Len(v) : v[i].type \notin HandshakeTypes
    BY <1>2 DEF Joint, HandshakeStates
  <2>2. u2 = <<>>
    BY <2>1 DEF Read
  <2>3. v2 # <<>> /\ v2[1] = v[1] /\ \A i \in 2..Len(v2) : v2[i].type \notin HandshakeTypes
    BY <2>1 DEF Later
  <2> QED
    BY <2>1, <2>2, <2>3 DEF Joint
<1> QED
  BY <1>1, <1>2

\* A step of an end that is past the handshake.
LEMMA LaterStep ==
  ASSUME TypeInv, HandshakeInv, NEW x \in Ends,
         session'[Peer(x)] = session[Peer(x)],
         session[x].state \notin HandshakeStates, session'[x].state \notin HandshakeStates,
         Later(Pipe(x), Pipe(x)'), Read(Pipe(Peer(x)), Pipe(Peer(x))')
  PROVE  HandshakeInv'
<1>1. \A z \in Ends : Pipe(z) \in Seq(Messages)
  <2> TAKE z \in Ends
  <2>1. wire[z] \in Seq(Messages) /\ session[z].buffer \in Seq(Messages)
    BY QueueType DEF TypeInv, SessionInv, Sessions
  <2> QED
    BY <2>1, ConcatProperties DEF Pipe
<1>2. CASE x = "active"
  <2>1. Peer(x) = "passive"
    BY <1>2 DEF Peer
  <2>2. session'["passive"].state = session["passive"].state
    BY <2>1
  <2> QED
    BY <1>1, <1>2, <2>1, <2>2, LaterActive DEF HandshakeInv, Ends
<1>3. CASE x = "passive"
  <2>1. Peer(x) = "active"
    BY <1>3 DEF Peer
  <2>2. session'["active"].state = session["active"].state
    BY <2>1
  <2> QED
    BY <1>1, <1>3, <2>1, <2>2, LaterPassive DEF HandshakeInv, Ends
<1> QED
  BY <1>2, <1>3 DEF Ends

\* And one that leaves the rest alone.
LEMMA LaterKeeps ==
  ASSUME TypeInv, HandshakeInv, NEW x \in Ends, Frame(x),
         session[x].state \notin HandshakeStates, session'[x].state \notin HandshakeStates,
         Later(Pipe(x), Pipe(x)'), Read(Pipe(Peer(x)), Pipe(Peer(x))')
  PROVE  HandshakeInv'
BY LaterStep DEF Frame

\* The states and what is under way stay as they are.
LEMMA StillKeeps ==
  ASSUME HandshakeInv, NEW x \in Ends, Frame(x), session'[x].state = session[x].state,
         Pipe(x)' = Pipe(x), Pipe(Peer(x))' = Pipe(Peer(x))
  PROVE  HandshakeInv'
<1>1. CASE x = "active"
  BY <1>1, Zenon DEF HandshakeInv, Frame, Peer
<1>2. CASE x = "passive"
  BY <1>2, Zenon DEF HandshakeInv, Frame, Peer
<1> QED
  BY <1>1, <1>2 DEF Ends

\* An end in the handshake reads its messages only, any other reads none of them.
LEMMA HandshakeRead ==
  ASSUME TypeInv, HandshakeInv, NEW x \in Ends, Pipe(Peer(x)) # <<>>,
         Pipe(Peer(x)) \in Seq(Messages)
  PROVE  session[x].state \in HandshakeStates <=>
           Head(Pipe(Peer(x))).type \in HandshakeTypes
<1>1. CASE x = "active"
  <2>1. Peer(x) = "passive"
    BY <1>1 DEF Peer
  <2>2. ASSUME NEW a, NEW p, NEW u, NEW v \in Seq(Messages), v # <<>>, Joint(a, p, u, v)
        PROVE  a \in HandshakeStates <=> Head(v).type \in HandshakeTypes
    BY <2>2 DEF Joint, HandshakeStates, HandshakeTypes, OnlyHas
  <2> QED
    BY <1>1, <2>1, <2>2 DEF HandshakeInv
<1>2. CASE x = "passive"
  <2>1. Peer(x) = "active"
    BY <1>2 DEF Peer
  <2>2. ASSUME NEW a, NEW p, NEW u \in Seq(Messages), NEW v, u # <<>>, Joint(a, p, u, v)
        PROVE  p \in HandshakeStates <=> Head(u).type \in HandshakeTypes
    BY <2>2 DEF Joint, HandshakeStates, HandshakeTypes, OnlyHas
  <2> QED
    BY <1>2, <2>1, <2>2 DEF HandshakeInv
<1> QED
  BY <1>1, <1>2 DEF Ends

\* The steps of the handshake that send.
LEMMA JointSends ==
  ASSUME NEW a, NEW p, NEW u \in Seq(Messages), NEW v \in Seq(Messages), Joint(a, p, u, v),
         NEW h \in Messages, NEW i \in Messages,
         h.type = "ContactHeader", i.type = "SessInit"
  PROVE  /\ a = "ActiveSendContactHeader" =>
              Joint("ActiveWaitContactHeader", p, Append(u, h), v)
         /\ a = "ActiveSendSessInit" => Joint("ActiveWaitSessInit", p, Append(u, i), v)
         /\ p = "PassiveSendContactHeader" =>
              Joint(a, "PassiveWaitSessInit", u, Append(v, h))
         /\ p = "PassiveSendSessInit" =>
              Joint(a, "SessionEstablished", u, Append(v, i))
<1>1. ASSUME NEW m \in Messages
      PROVE  Len(Append(<<>>, m)) = 1 /\ Append(<<>>, m)[1] = m /\ Append(<<>>, m) # <<>>
  OBVIOUS
<1>2. ASSUME a = "ActiveSendContactHeader"
      PROVE  Joint("ActiveWaitContactHeader", p, Append(u, h), v)
  <2>1. p = "PassiveWaitContactHeader" /\ u = <<>> /\ v = <<>>
    BY <1>2 DEF Joint, HandshakeStates
  <2> QED
    BY <1>1, <2>1 DEF Joint, OnlyHas
<1>3. ASSUME a = "ActiveSendSessInit"
      PROVE  Joint("ActiveWaitSessInit", p, Append(u, i), v)
  <2>1. p = "PassiveWaitSessInit" /\ u = <<>> /\ v = <<>>
    BY <1>3 DEF Joint, HandshakeStates
  <2> QED
    BY <1>1, <2>1 DEF Joint, OnlyHas
<1>4. ASSUME p = "PassiveSendContactHeader"
      PROVE  Joint(a, "PassiveWaitSessInit", u, Append(v, h))
  <2>1. a = "ActiveWaitContactHeader" /\ u = <<>> /\ v = <<>>
    BY <1>4 DEF Joint, HandshakeStates
  <2> QED
    BY <1>1, <2>1 DEF Joint, OnlyHas
<1>5. ASSUME p = "PassiveSendSessInit"
      PROVE  Joint(a, "SessionEstablished", u, Append(v, i))
  <2>1. a = "ActiveWaitSessInit" /\ u = <<>> /\ v = <<>>
    BY <1>5 DEF Joint, HandshakeStates
  <2> QED
    BY <1>1, <2>1 DEF Joint, HandshakeStates
<1> QED
  BY <1>2, <1>3, <1>4, <1>5

\* The steps of the handshake that read.
LEMMA JointReads ==
  ASSUME NEW a, NEW p, NEW u \in Seq(Messages), NEW v \in Seq(Messages), Joint(a, p, u, v)
  PROVE  /\ a = "ActiveWaitContactHeader" /\ v # <<>> =>
              Joint("ActiveSendSessInit", p, u, Tail(v))
         /\ a = "ActiveWaitSessInit" /\ v # <<>> =>
              Joint("SessionEstablished", p, u, Tail(v))
         /\ p = "PassiveWaitContactHeader" /\ u # <<>> =>
              Joint(a, "PassiveSendContactHeader", Tail(u), v)
         /\ p = "PassiveWaitSessInit" /\ u # <<>> =>
              Joint(a, "PassiveSendSessInit", Tail(u), v)
<1>1. ASSUME NEW w \in Seq(Messages), Len(w) = 1
      PROVE  Tail(w) = <<>>
  <2>1. Tail(w) \in Seq(Messages) /\ Len(Tail(w)) = 0
    BY <1>1
  <2> QED
    BY <2>1, EmptySeq
<1>2. ASSUME a = "ActiveWaitContactHeader", v # <<>>
      PROVE  Joint("ActiveSendSessInit", p, u, Tail(v))
  <2>1. p = "PassiveWaitSessInit" /\ u = <<>> /\ Len(v) = 1
    BY <1>2 DEF Joint, HandshakeStates, OnlyHas
  <2> QED
    BY <1>1, <2>1 DEF Joint
<1>3. ASSUME a = "ActiveWaitSessInit", v # <<>>
      PROVE  Joint("SessionEstablished", p, u, Tail(v))
  <2>1. /\ p \notin HandshakeStates /\ u = <<>>
        /\ \A i \in 2..Len(v) : v[i].type \notin HandshakeTypes
    BY <1>3 DEF Joint, HandshakeStates
  <2>2. \A i \in 1..Len(Tail(v)) : Tail(v)[i].type \notin HandshakeTypes
    BY <1>3, <2>1
  <2> QED
    BY <2>1, <2>2 DEF Joint, HandshakeStates
<1>4. ASSUME p = "PassiveWaitContactHeader", u # <<>>
      PROVE  Joint(a, "PassiveSendContactHeader", Tail(u), v)
  <2>1. a = "ActiveWaitContactHeader" /\ Len(u) = 1 /\ v = <<>>
    BY <1>4 DEF Joint, HandshakeStates, OnlyHas
  <2> QED
    BY <1>1, <2>1 DEF Joint
<1>5. ASSUME p = "PassiveWaitSessInit", u # <<>>
      PROVE  Joint(a, "PassiveSendSessInit", Tail(u), v)
  <2>1. a = "ActiveWaitSessInit" /\ Len(u) = 1 /\ v = <<>>
    BY <1>5 DEF Joint, HandshakeStates, OnlyHas
  <2> QED
    BY <1>1, <2>1 DEF Joint
<1> QED
  BY <1>2, <1>3, <1>4, <1>5

\* What is under way are messages.
LEMMA PipeType ==
  ASSUME TypeInv
  PROVE  \A z \in Ends : Pipe(z) \in Seq(Messages)
<1> TAKE z \in Ends
<1>1. wire[z] \in Seq(Messages) /\ session[z].buffer \in Seq(Messages)
  BY QueueType DEF TypeInv, SessionInv, Sessions
<1> QED
  BY <1>1, ConcatProperties DEF Pipe

\* The states of each end in the handshake.
LEMMA HandshakeSides ==
  ASSUME HandshakeInv
  PROVE  /\ session["active"].state \notin
              {"PassiveWaitContactHeader", "PassiveSendContactHeader",
               "PassiveWaitSessInit", "PassiveSendSessInit"}
         /\ session["passive"].state \notin
              {"ActiveSendContactHeader", "ActiveWaitContactHeader",
               "ActiveSendSessInit", "ActiveWaitSessInit"}
<1>1. ASSUME NEW a, NEW p, NEW u, NEW v, Joint(a, p, u, v)
      PROVE  /\ a \notin {"PassiveWaitContactHeader", "PassiveSendContactHeader",
                          "PassiveWaitSessInit", "PassiveSendSessInit"}
             /\ p \notin {"ActiveSendContactHeader", "ActiveWaitContactHeader",
                          "ActiveSendSessInit", "ActiveWaitSessInit"}
  BY <1>1 DEF Joint, HandshakeStates
<1> QED
  BY <1>1 DEF HandshakeInv

\* A message of the handshake is written.
LEMMA HandshakeWritten ==
  ASSUME TypeInv, HandshakeInv, NEW x \in Ends, WriteThrough(x),
         session[x].state \in HandshakeStates
  PROVE  /\ HandshakeInv' /\ SameSender(session[x], session'[x])
         /\ SameReceiver(session[x], session'[x])
         /\ session'[x].tracker = session[x].tracker
         /\ session'[x].state \in Onward
<1>1. /\ TypeInv' /\ Frame(x) /\ IsWritable(session[x])
      /\ Headed(send_complete(Fed(session[x])), session'[x])
      /\ Pipe(x)' = Append(Pipe(x), MessageOf(session[x]))
      /\ Pipe(Peer(x))' = Pipe(Peer(x))
  BY Written
<1>2. PICK s : s = session[x]
  OBVIOUS
<1>3. s \in Sessions(Bundles(x)) /\ StateInv(s, Bundles(x)) /\ Bundles(x) \in Seq(Nat)
  BY <1>2, ScenarioType DEF TypeInv, SessionInv
<1>4. s.nested = 0 /\ Fed(s) = s /\ s.request = 0
  BY <1>2, <1>3 DEF StateInv, Fed, HandshakeStates
<1>5. s.state \in {"ActiveSendContactHeader", "PassiveSendContactHeader",
                   "ActiveSendSessInit", "PassiveSendSessInit"}
  BY <1>1, <1>2, <1>4 DEF IsWritable, HandshakeStates, Waits
<1>6. PICK c \in Onward :
        /\ send_complete(s) = [s EXCEPT !.state = c]
        /\ \/ /\ s.state = "ActiveSendContactHeader" /\ c = "ActiveWaitContactHeader"
              /\ MessageOf(s) = [type |-> "ContactHeader"]
           \/ /\ s.state = "PassiveSendContactHeader" /\ c = "PassiveWaitSessInit"
              /\ MessageOf(s) = [type |-> "ContactHeader"]
           \/ /\ s.state = "ActiveSendSessInit" /\ c = "ActiveWaitSessInit"
              /\ MessageOf(s) = [type |-> "SessInit"]
           \/ /\ s.state = "PassiveSendSessInit" /\ c = "SessionEstablished"
              /\ MessageOf(s) = [type |-> "SessInit"]
  BY <1>4, <1>5, HandshakeSends, Zenon DEF HandshakeStates, Onward
<1>7. PICK n : n = [s EXCEPT !.state = c] /\ Moves(s, n, c)
  BY DEF Moves
<1>8. Headed(n, session'[x])
  BY <1>1, <1>2, <1>4, <1>6, <1>7
<1>9. /\ SameSender(s, n) /\ SameReceiver(s, n) /\ n.state = c
      /\ n.tracker = Nothing /\ n \in Sessions(Bundles(x))
  <2>1. s.state \in HandshakeStates /\ c \in Onward
    BY <1>2, <1>6
  <2> QED
    <3>1. PICK b \in Seq(Nat) : b = Bundles(x)
      BY <1>3
    <3>2. s \in Sessions(b) /\ StateInv(s, b)
      BY <1>3, <3>1
    <3>3. /\ n \in Sessions(b) /\ Prepared(n, b)
          /\ SameSender(s, n) /\ SameReceiver(s, n) /\ SameLoop(s, n)
          /\ n.state = c /\ n.tracker = Nothing /\ n.terminating = s.terminating
      <4>1. Moves(s, n, c)
        BY <1>7
      <4> QED
        BY <2>1, <3>2, <4>1, HandshakeEffect
    <3> QED
      BY <3>1, <3>3
<1>10. session'[x].state = c /\ session'[x].request = 0 /\ session'[x].results = s.results
       /\ session'[x].tracker = n.tracker /\ s.tracker = Nothing
  BY <1>2, <1>3, <1>4, <1>8, <1>9
  DEF Headed, SameSender, StateInv, Segmenting, HandshakeStates
<1>11. SameSender(s, session'[x]) /\ SameReceiver(s, session'[x])
  BY <1>4, <1>8, <1>9, <1>10 DEF Headed, SameSender, SameReceiver
<1>12. [type |-> "ContactHeader"] \in Messages /\ [type |-> "SessInit"] \in Messages
  BY DEF Messages, PlainTypes
<1>13. PICK h \in Messages : h = [type |-> "ContactHeader"] /\ h.type = "ContactHeader"
  BY <1>12
<1>14. PICK i \in Messages : i = [type |-> "SessInit"] /\ i.type = "SessInit"
  BY <1>12
<1>15. PICK u \in Seq(Messages) : u = Pipe("active")
  BY PipeType DEF Ends
<1>16. PICK v \in Seq(Messages) : v = Pipe("passive")
  BY PipeType DEF Ends
<1>17. Joint(session["active"].state, session["passive"].state, u, v)
  BY <1>15, <1>16 DEF HandshakeInv
<1>18. PICK a : a = session["active"].state
  OBVIOUS
<1>19. PICK p : p = session["passive"].state
  OBVIOUS
<1>20. /\ a = "ActiveSendContactHeader" =>
            Joint("ActiveWaitContactHeader", p, Append(u, h), v)
       /\ a = "ActiveSendSessInit" => Joint("ActiveWaitSessInit", p, Append(u, i), v)
       /\ p = "PassiveSendContactHeader" =>
            Joint(a, "PassiveWaitSessInit", u, Append(v, h))
       /\ p = "PassiveSendSessInit" =>
            Joint(a, "SessionEstablished", u, Append(v, i))
  BY <1>13, <1>14, <1>17, <1>18, <1>19, JointSends
<1>21. HandshakeInv'
  <2>1. CASE x = "active"
    <3>1. Peer(x) = "passive"
      BY <2>1 DEF Peer
    <3>2. session'["passive"].state = session["passive"].state
      BY <1>1, <3>1 DEF Frame
    <3>3. s.state \in {"ActiveSendContactHeader", "ActiveSendSessInit"}
      BY <1>2, <1>5, <2>1, HandshakeSides
    <3>4. Joint(c, p, Append(u, MessageOf(s)), v)
      BY <1>2, <1>6, <1>13, <1>14, <1>18, <1>20, <2>1, <3>3
    <3> QED
      BY <1>1, <1>2, <1>10, <1>15, <1>16, <1>19, <2>1, <3>1, <3>2, <3>4 DEF HandshakeInv
  <2>2. CASE x = "passive"
    <3>1. Peer(x) = "active"
      BY <2>2 DEF Peer
    <3>2. session'["active"].state = session["active"].state
      BY <1>1, <3>1 DEF Frame
    <3>3. s.state \in {"PassiveSendContactHeader", "PassiveSendSessInit"}
      BY <1>2, <1>5, <2>2, HandshakeSides
    <3>4. Joint(a, c, u, Append(v, MessageOf(s)))
      BY <1>2, <1>6, <1>13, <1>14, <1>19, <1>20, <2>2, <3>3
    <3> QED
      BY <1>1, <1>2, <1>10, <1>15, <1>16, <1>18, <2>2, <3>1, <3>2, <3>4 DEF HandshakeInv
  <2> QED
    BY <2>1, <2>2 DEF Ends
<1> QED
  BY <1>2, <1>6, <1>9, <1>10, <1>11, <1>21

\* A message of the handshake is read.
LEMMA HandshakeTaken ==
  ASSUME TypeInv, HandshakeInv, NEW x \in Ends, ReadHandshake(x)
  PROVE  /\ TypeInv' /\ HandshakeInv' /\ Frame(x) /\ ReadBy(x)
         /\ SameSender(session[x], session'[x]) /\ SameReceiver(session[x], session'[x])
         /\ session'[x].tracker = session[x].tracker
         /\ session[x].state \in HandshakeStates /\ session'[x].state \in Onward
         /\ session'[x].outcome = session[x].outcome
         /\ Pipe(Peer(x)) # <<>> /\ Head(Pipe(Peer(x))).type \in HandshakeTypes
<1>1. Reads(x, HandshakeTypes)
  BY DEF ReadHandshake, HandshakeTypes
<1>2. PICK s : s = session[x]
  OBVIOUS
<1>3. PICK b \in Seq(Nat) : b = Bundles(x)
  BY ScenarioType
<1>4. /\ s \in Sessions(b) /\ StateInv(s, b) /\ IsReadable(s)
      /\ Pipe(Peer(x)) # <<>> /\ Pipe(Peer(x)) \in Seq(Messages)
      /\ Head(Pipe(Peer(x))).type \in HandshakeTypes
  BY <1>1, <1>2, <1>3, ReadIs
<1>5. s.state \in HandshakeStates
  BY <1>2, <1>4, HandshakeRead
<1>6. s.state \in {"PassiveWaitContactHeader", "ActiveWaitContactHeader",
                   "PassiveWaitSessInit", "ActiveWaitSessInit"}
  BY <1>4, <1>5 DEF IsReadable, Waits, HandshakeStates
<1>7. PICK c \in Onward :
        /\ Turn(x, [s EXCEPT !.state = c])
        /\ \/ s.state = "PassiveWaitContactHeader" /\ c = "PassiveSendContactHeader"
           \/ s.state = "ActiveWaitContactHeader" /\ c = "ActiveSendSessInit"
           \/ s.state = "PassiveWaitSessInit" /\ c = "PassiveSendSessInit"
           \/ s.state = "ActiveWaitSessInit" /\ c = "SessionEstablished"
  <2>1. CASE s.state = "PassiveWaitContactHeader"
    <3>1. Turn(x, [s EXCEPT !.state = "PassiveSendContactHeader"])
      BY <1>2, <2>1, Zenon DEF ReadHandshake, HandshakeStates
    <3> QED
      BY <2>1, <3>1 DEF Onward, HandshakeStates
  <2>2. CASE s.state = "ActiveWaitContactHeader"
    <3>1. Turn(x, [s EXCEPT !.state = "ActiveSendSessInit"])
      BY <1>2, <2>2, Zenon DEF ReadHandshake, HandshakeStates
    <3> QED
      BY <2>2, <3>1 DEF Onward, HandshakeStates
  <2>3. CASE s.state = "PassiveWaitSessInit"
    <3>1. Turn(x, [s EXCEPT !.state = "PassiveSendSessInit"])
      BY <1>2, <2>3, Zenon DEF ReadHandshake, HandshakeStates
    <3> QED
      BY <2>3, <3>1 DEF Onward, HandshakeStates
  <2>4. CASE s.state = "ActiveWaitSessInit"
    <3>1. Turn(x, [s EXCEPT !.state = "SessionEstablished"])
      BY <1>2, <2>4, Zenon DEF ReadHandshake, HandshakeStates
    <3> QED
      BY <2>4, <3>1 DEF Onward, HandshakeStates
  <2> QED
    BY <1>6, <2>1, <2>2, <2>3, <2>4
<1>8. PICK n : n = [s EXCEPT !.state = c]
  OBVIOUS
<1>9. Moves(s, n, c) /\ Turn(x, n)
  BY <1>7, <1>8 DEF Moves
<1>10. /\ n \in Sessions(b) /\ Prepared(n, b)
       /\ SameSender(s, n) /\ SameReceiver(s, n) /\ SameLoop(s, n)
       /\ n.state = c /\ n.tracker = Nothing
  <2>1. Moves(s, n, c) /\ c \in Onward
    BY <1>7, <1>9
  <2> QED
    BY <1>4, <1>5, <2>1, HandshakeEffect
<1>11. TypeInv' /\ Frame(x) /\ Headed(n, session'[x]) /\ ReadBy(x)
  BY <1>1, <1>2, <1>3, <1>9, <1>10, ReadTurn
<1>12. s.request = 0 /\ s.tracker = Nothing
  BY <1>4, <1>5 DEF StateInv, Segmenting, HandshakeStates
<1>13. /\ session'[x].state = c /\ session'[x].request = 0
       /\ session'[x].results = s.results /\ session'[x].tracker = Nothing
  BY <1>10, <1>11, <1>12 DEF Headed, SameSender
<1>14. SameSender(s, session'[x]) /\ SameReceiver(s, session'[x])
  BY <1>10, <1>11, <1>12, <1>13 DEF Headed, SameSender, SameReceiver
<1>15. session'[x].outcome = s.outcome
  <2>1. c # "ConnectionClose"
    BY <1>7
  <2> QED
    BY <1>10, <1>11, <2>1 DEF Headed, SameLoop
<1>16. PICK u \in Seq(Messages) : u = Pipe("active")
  BY PipeType DEF Ends
<1>17. PICK v \in Seq(Messages) : v = Pipe("passive")
  BY PipeType DEF Ends
<1>18. PICK a : a = session["active"].state
  OBVIOUS
<1>19. PICK p : p = session["passive"].state
  OBVIOUS
<1>20. /\ a = "ActiveWaitContactHeader" /\ v # <<>> =>
            Joint("ActiveSendSessInit", p, u, Tail(v))
       /\ a = "ActiveWaitSessInit" /\ v # <<>> =>
            Joint("SessionEstablished", p, u, Tail(v))
       /\ p = "PassiveWaitContactHeader" /\ u # <<>> =>
            Joint(a, "PassiveSendContactHeader", Tail(u), v)
       /\ p = "PassiveWaitSessInit" /\ u # <<>> =>
            Joint(a, "PassiveSendSessInit", Tail(u), v)
  <2>1. Joint(a, p, u, v)
    BY <1>16, <1>17, <1>18, <1>19 DEF HandshakeInv
  <2> QED
    BY <2>1, JointReads
<1>21. HandshakeInv'
  <2>1. CASE x = "active"
    <3>1. Peer(x) = "passive"
      BY <2>1 DEF Peer
    <3>2. session'["passive"].state = session["passive"].state
      BY <1>11, <3>1 DEF Frame
    <3>3. s.state \in {"ActiveWaitContactHeader", "ActiveWaitSessInit"}
      BY <1>2, <1>6, <2>1, HandshakeSides
    <3>4. Joint(c, p, u, Tail(v))
      BY <1>2, <1>4, <1>7, <1>17, <1>18, <1>20, <2>1, <3>1, <3>3
    <3> QED
      BY <1>11, <1>13, <1>16, <1>17, <1>19, <2>1, <3>1, <3>2, <3>4 DEF HandshakeInv, ReadBy
  <2>2. CASE x = "passive"
    <3>1. Peer(x) = "active"
      BY <2>2 DEF Peer
    <3>2. session'["active"].state = session["active"].state
      BY <1>11, <3>1 DEF Frame
    <3>3. s.state \in {"PassiveWaitContactHeader", "PassiveWaitSessInit"}
      BY <1>2, <1>6, <2>2, HandshakeSides
    <3>4. Joint(a, c, Tail(u), v)
      BY <1>2, <1>4, <1>7, <1>16, <1>19, <1>20, <2>2, <3>1, <3>3
    <3> QED
      BY <1>11, <1>13, <1>16, <1>17, <1>18, <2>2, <3>1, <3>2, <3>4 DEF HandshakeInv, ReadBy
  <2> QED
    BY <2>1, <2>2 DEF Ends
<1> QED
  BY <1>2, <1>4, <1>5, <1>7, <1>11, <1>12, <1>13, <1>14, <1>15, <1>21

-------------------------------------------------------------------------------
(* Transfers: what the steps of the sender keep *)

\* The positions of a pipe that was read from or written to.
IsTail(p, q) ==
  /\ q \in Seq(Messages) /\ Len(p) \in Nat /\ Len(p) > 0 /\ Len(q) = Len(p) - 1
  /\ \A i \in 1..Len(q) : q[i] = p[i + 1] /\ i + 1 \in 1..Len(p)
IsAppend(p, m, q) ==
  /\ q \in Seq(Messages) /\ Len(p) \in Nat /\ Len(q) = Len(p) + 1 /\ q[Len(q)] = m
  /\ \A i \in 1..Len(p) : q[i] = p[i] /\ i \in 1..Len(q)

\* Reading takes the first message.
LEMMA TailIs ==
  ASSUME NEW p \in Seq(Messages), p # <<>>
  PROVE  IsTail(p, Tail(p)) /\ Head(p) = p[1] /\ 1 \in 1..Len(p)
BY DEF IsTail

\* Writing adds a message at the end.
LEMMA AppendIs ==
  ASSUME NEW p \in Seq(Messages), NEW m \in Messages
  PROVE  IsAppend(p, m, Append(p, m))
BY DEF IsAppend

\* The fields of segments and acknowledgements.
LEMMA MessageFields ==
  ASSUME NEW m \in Messages
  PROVE  /\ Segment(m) => /\ m.id \in Nat /\ m.data \in Nat \X Nat /\ m.end \in BOOLEAN
                          /\ m.data[1] \in Nat /\ m.data[2] \in Nat
         /\ Acknowledges(m) => m.id \in Nat /\ m.len \in Nat
<1>1. ASSUME Segment(m)
      PROVE  m \in [type : {"XferSegment"}, id : Nat, data : Nat \X Nat, end : BOOLEAN]
  BY <1>1 DEF Messages, PlainTypes, Segment
<1>2. ASSUME Acknowledges(m)
      PROVE  m \in [type : {"XferAck"}, id : Nat, len : Nat]
  BY <1>2 DEF Messages, PlainTypes, Acknowledges
<1> QED
  BY <1>1, <1>2

\* The messages that may be sent without a new segment, or a new acknowledgement.
OtherSegment(p, q) == q = p \/ \E m \in Messages : ~Segment(m) /\ q = Append(p, m)
OtherAck(p, q) == q = p \/ \E m \in Messages : ~Acknowledges(m) /\ q = Append(p, m)

\* The sender s does nothing for its transfer, except to abandon it.
SenderRests(s, n) ==
  /\ SameSender(s, n)
  /\ n.tracker = Nothing \/ (s.tracker # Nothing /\ n.tracker.pos = s.tracker.pos)

\* The segments stay as they are.
LEMMA SegmentsRest ==
  ASSUME NEW s, NEW t, NEW p \in Seq(Messages), NEW b, NEW r, SegmentsInv(s, t, p, b, r),
         NEW n, SenderRests(s, n), NEW p2, OtherSegment(p, p2)
  PROVE  SegmentsInv(n, t, p2, b, r)
<1>1. SegmentsInv(n, t, p, b, r)
  BY DEF SegmentsInv, SenderRests, SameSender
<1>2. ASSUME NEW m \in Messages, ~Segment(m), p2 = Append(p, m)
      PROVE  SegmentsInv(n, t, p2, b, r)
  <2>1. IsAppend(p, m, p2)
    BY <1>2, AppendIs
  <2>2. \A i \in 1..Len(p2) : Segment(p2[i]) => i \in 1..Len(p) /\ p2[i] = p[i]
    BY <1>2, <2>1 DEF IsAppend
  <2>3. \A i \in 1..Len(p) : i \in 1..Len(p2) /\ p2[i] = p[i]
    BY <2>1 DEF IsAppend
  <2>4. ~Over(t) => \A j \in 1..Len(p2) : (Segment(p2[j]) /\ p2[j].data[2] > r + 1) =>
          \E i \in 1..(j - 1) : Segment(p2[i]) /\ p2[i].data[2] = p2[j].data[2] - 1
    <3> SUFFICES ASSUME ~Over(t), NEW j \in 1..Len(p2), Segment(p2[j]),
                        p2[j].data[2] > r + 1
                 PROVE  \E i \in 1..(j - 1) : /\ Segment(p2[i])
                                              /\ p2[i].data[2] = p2[j].data[2] - 1
      OBVIOUS
    <3>1. j \in 1..Len(p) /\ p2[j] = p[j]
      BY <2>2
    <3>2. PICK i \in 1..(j - 1) : Segment(p[i]) /\ p[i].data[2] = p[j].data[2] - 1
      BY <1>1, <3>1 DEF SegmentsInv
    <3>3. i \in 1..Len(p)
      BY <2>1, <3>1 DEF IsAppend
    <3> QED
      BY <2>3, <3>1, <3>2, <3>3
  <2> QED
    BY <1>1, <2>2, <2>3, <2>4, SMTT(30) DEF SegmentsInv
<1> QED
  BY <1>1, <1>2 DEF OtherSegment

\* Reading an acknowledgement, or anything else, leaves those behind it as they are.
LEMMA AcksRest ==
  ASSUME NEW s, NEW t, NEW q \in Seq(Messages), NEW r, AcksInv(s, t, q, r),
         NEW n, SameSender(s, n), NEW q2, Read(q, q2)
  PROVE  AcksInv(n, t, q2, r)
<1>1. AcksInv(n, t, q, r)
  BY DEF AcksInv, SameSender
<1>2. ASSUME q # <<>>, q2 = Tail(q)
      PROVE  AcksInv(n, t, q2, r)
  <2>1. IsTail(q, q2)
    BY <1>2, TailIs
  <2>2. \A i \in 1..Len(q2) : q2[i] = q[i + 1] /\ i + 1 \in 1..Len(q)
    BY <2>1 DEF IsTail
  <2>3. \A i, j \in 1..Len(q2) : i < j => i + 1 < j + 1
    BY <2>1 DEF IsTail
  <2>4. \A i, j \in 1..Len(q2) : (Acknowledges(q2[i]) /\ Acknowledges(q2[j]) /\ i < j)
          => q2[i].len < q2[j].len
    BY <1>1, <2>2, <2>3 DEF AcksInv
  <2> QED
    BY <1>1, <2>2, <2>4 DEF AcksInv
<1> QED
  BY <1>1, <1>2 DEF Read

\* The sender rests.
LEMMA SenderKeeps ==
  ASSUME NEW s, NEW t, NEW p \in Seq(Messages), NEW q \in Seq(Messages), NEW g, NEW b, NEW w,
         NEW r, TransferInv(s, t, p, q, g, b, w, r),
         NEW n, SenderRests(s, n), NEW p2, OtherSegment(p, p2), NEW q2, Read(q, q2)
  PROVE  TransferInv(n, t, p2, q2, g, b, w, r)
<1>1. SegmentsInv(n, t, p2, b, r)
  BY SegmentsRest DEF TransferInv
<1>2. AcksInv(n, t, q2, r)
  BY AcksRest DEF TransferInv, SenderRests
<1>3. ProgressInv(n, t, g, b, r)
  BY Zenon DEF TransferInv, ProgressInv, SenderRests, SameSender
<1>4. ArrivedInv(n, g, b, w)
  BY DEF TransferInv, ArrivedInv, SenderRests, SameSender
<1> QED
  BY <1>1, <1>2, <1>3, <1>4 DEF TransferInv

\* The next segment is sent.
SegmentSent(s, n, m, b) ==
  /\ SameSender(s, n) /\ s.tracker # Nothing /\ n.tracker # Nothing
  /\ s.tracker.pos \in Nat /\ n.tracker.pos = s.tracker.pos + 1
  /\ s.tracker.pos < b[s.request] /\ s.request # 0 /\ b[s.request] \in Nat
  /\ m \in Messages /\ Segment(m) /\ m.id = s.last_used_transfer_id - 1
  /\ m.data[1] = s.request /\ m.data[2] = s.tracker.pos + 1
  /\ m.end <=> m.data[2] = b[s.request]

\* The new segment comes next after the others.
LEMMA SegmentSentKeeps ==
  ASSUME NEW s, NEW t, NEW p \in Seq(Messages), NEW q \in Seq(Messages), NEW g, NEW b, NEW w,
         NEW r \in Nat, TransferInv(s, t, p, q, g, b, w, r),
         NEW n, NEW m, SegmentSent(s, n, m, b), NEW p2, p2 = Append(p, m)
  PROVE  TransferInv(n, t, p2, q, g, b, w, r)
<1>0. SegmentsInv(s, t, p, b, r) /\ IsAppend(p, m, p2)
  BY AppendIs DEF TransferInv, SegmentSent
<1>1. /\ n.request = s.request /\ n.last_used_transfer_id = s.last_used_transfer_id
      /\ n.results = s.results
  BY DEF SegmentSent, SameSender
<1>2. r <= s.tracker.pos
  BY <1>0 DEF SegmentsInv, SegmentSent
<1>3. ASSUME NEW i \in 1..Len(p2), Segment(p2[i])
      PROVE  \/ i \in 1..Len(p) /\ p2[i] = p[i]
             \/ i = Len(p) + 1 /\ p2[i] = m
  BY <1>0 DEF IsAppend
<1>4. \A i \in 1..Len(p) : Segment(p[i]) => p[i].data[2] \in Nat /\ p[i].data[2] <= s.tracker.pos
  <2> TAKE i \in 1..Len(p)
  <2>1. p[i] \in Messages
    BY ElementOfSeq
  <2> QED
    BY <1>0, <2>1, MessageFields DEF SegmentsInv, SegmentSent
<1>5. \A i \in 1..Len(p2) : Segment(p2[i]) =>
        /\ n.request # 0 /\ p2[i].id = n.last_used_transfer_id - 1
        /\ p2[i].data[1] = n.request /\ r < p2[i].data[2] /\ p2[i].data[2] <= b[n.request]
        /\ p2[i].end <=> p2[i].data[2] = b[n.request]
        /\ n.tracker # Nothing => p2[i].data[2] <= n.tracker.pos
  <2> SUFFICES ASSUME NEW i \in 1..Len(p2), Segment(p2[i])
               PROVE  /\ n.request # 0 /\ p2[i].id = n.last_used_transfer_id - 1
                      /\ p2[i].data[1] = n.request /\ r < p2[i].data[2]
                      /\ p2[i].data[2] <= b[n.request]
                      /\ p2[i].end <=> p2[i].data[2] = b[n.request]
                      /\ p2[i].data[2] <= n.tracker.pos
    OBVIOUS
  <2>1. CASE i \in 1..Len(p) /\ p2[i] = p[i]
    <3>1. Segment(p[i])
      BY <2>1
    <3>2. /\ s.request # 0 /\ p[i].id = s.last_used_transfer_id - 1
          /\ p[i].data[1] = s.request /\ r < p[i].data[2] /\ p[i].data[2] <= b[s.request]
          /\ p[i].end <=> p[i].data[2] = b[s.request]
      BY <1>0, <2>1, <3>1 DEF SegmentsInv
    <3>3. p[i].data[2] <= n.tracker.pos
      BY <1>4, <2>1, <3>1 DEF SegmentSent
    <3> QED
      BY <1>1, <2>1, <3>2, <3>3
  <2>2. CASE i = Len(p) + 1 /\ p2[i] = m
    BY <1>1, <1>2, <2>2 DEF SegmentSent
  <2> QED
    BY <1>3, <2>1, <2>2
<1>6. \A i, j \in 1..Len(p2) : (Segment(p2[i]) /\ Segment(p2[j]) /\ i < j)
        => p2[i].data[2] < p2[j].data[2]
  <2> SUFFICES ASSUME NEW i \in 1..Len(p2), NEW j \in 1..Len(p2), Segment(p2[i]),
                      Segment(p2[j]), i < j
               PROVE  p2[i].data[2] < p2[j].data[2]
    OBVIOUS
  <2>1. i \in 1..Len(p) /\ p2[i] = p[i]
    BY <1>0, <1>3 DEF IsAppend
  <2>2. CASE j \in 1..Len(p) /\ p2[j] = p[j]
    BY <1>0, <2>1, <2>2 DEF SegmentsInv
  <2>3. CASE j = Len(p) + 1 /\ p2[j] = m
    BY <1>4, <2>1, <2>3 DEF SegmentSent
  <2> QED
    BY <1>3, <2>2, <2>3
<1>7. ~Over(t) => \A j \in 1..Len(p2) : (Segment(p2[j]) /\ p2[j].data[2] > r + 1) =>
        \E i \in 1..(j - 1) : Segment(p2[i]) /\ p2[i].data[2] = p2[j].data[2] - 1
  <2> SUFFICES ASSUME ~Over(t), NEW j \in 1..Len(p2), Segment(p2[j]), p2[j].data[2] > r + 1
               PROVE  \E i \in 1..(j - 1) : /\ Segment(p2[i])
                                            /\ p2[i].data[2] = p2[j].data[2] - 1
    OBVIOUS
  <2>1. CASE j \in 1..Len(p) /\ p2[j] = p[j]
    <3>1. PICK i \in 1..(j - 1) : Segment(p[i]) /\ p[i].data[2] = p[j].data[2] - 1
      BY <1>0, <2>1 DEF SegmentsInv
    <3>2. i \in 1..Len(p)
      BY <1>0, <2>1 DEF IsAppend
    <3>3. p2[i] = p[i]
      BY <1>0, <3>2 DEF IsAppend
    <3> QED
      BY <2>1, <3>1, <3>3
  <2>2. CASE j = Len(p) + 1 /\ p2[j] = m
    <3>1. r < s.tracker.pos
      BY <2>2 DEF SegmentSent
    <3>2. PICK i \in 1..Len(p) : Segment(p[i]) /\ p[i].data[2] = s.tracker.pos
      BY <1>0, <3>1 DEF SegmentsInv, SegmentSent
    <3>3. p2[i] = p[i] /\ i \in 1..(j - 1)
      BY <1>0, <2>2, <3>2 DEF IsAppend
    <3>4. p2[i].data[2] = p2[j].data[2] - 1
      BY <2>2, <3>2, <3>3 DEF SegmentSent
    <3> QED
      BY <3>2, <3>3, <3>4
  <2> QED
    BY <1>3, <2>1, <2>2
<1>8. r <= n.tracker.pos
  BY <1>2 DEF SegmentSent
<1>9. \E i \in 1..Len(p2) : Segment(p2[i]) /\ p2[i].data[2] = n.tracker.pos
  <2>1. p2[Len(p2)] = m /\ Len(p2) \in 1..Len(p2)
    BY <1>0 DEF IsAppend
  <2> QED
    BY <2>1 DEF SegmentSent
<1>10. SegmentsInv(n, t, p2, b, r)
  BY <1>5, <1>6, <1>7, <1>8, <1>9 DEF SegmentsInv
<1>11. AcksInv(n, t, q, r)
  BY <1>1 DEF TransferInv, AcksInv
<1>12. ProgressInv(n, t, g, b, r)
  BY <1>1, Zenon DEF TransferInv, ProgressInv
<1>13. ArrivedInv(n, g, b, w)
  BY <1>1 DEF TransferInv, ArrivedInv
<1> QED
  BY <1>10, <1>11, <1>12, <1>13 DEF TransferInv

\* The transfer is acknowledged in full: its result is passed on.
TransferDone(s, n, m, b) ==
  /\ s.request \in DOMAIN s.results /\ s.request # 0 /\ b[s.request] \in Nat \ {0}
  /\ n.request = 0 /\ n.results = [s.results EXCEPT ![s.request] = "ok"]
  /\ n.last_used_transfer_id = s.last_used_transfer_id
  /\ n.tracker = Nothing /\ Acknowledges(m) /\ m.len = b[s.request]

\* Then it has arrived, and nothing of it is under way any more.
LEMMA TransferDoneKeeps ==
  ASSUME NEW s, NEW t, NEW p \in Seq(Messages), NEW q \in Seq(Messages), NEW g, NEW b, NEW w,
         NEW r \in Nat, TransferInv(s, t, p, q, g, b, w, r), q # <<>>,
         t.passing # Nothing => t.ack # Nothing,
         NEW n, TransferDone(s, n, Head(q), b), NEW q2, q2 = Tail(q)
  PROVE  TransferInv(n, t, p, q2, g, b, w, 0)
<1>0. /\ SegmentsInv(s, t, p, b, r) /\ AcksInv(s, t, q, r) /\ ProgressInv(s, t, g, b, r)
      /\ ArrivedInv(s, g, b, w) /\ IsTail(q, q2) /\ Head(q) = q[1] /\ 1 \in 1..Len(q)
  BY TailIs DEF TransferInv
<1>1. /\ s.request # 0 /\ b[s.request] \in Nat /\ b[s.request] # 0
      /\ Acknowledges(q[1]) /\ q[1].len = b[s.request]
      /\ n.request = 0 /\ n.last_used_transfer_id = s.last_used_transfer_id
      /\ n.tracker = Nothing
  BY <1>0 DEF TransferDone
<1>2. b[s.request] <= r
  BY <1>0, <1>1 DEF AcksInv
<1>3. t.receiving = Nothing
  BY <1>0, <1>1, <1>2 DEF ProgressInv
<1>4. r = b[s.request]
  BY <1>0, <1>1, <1>2, <1>3 DEF ProgressInv
<1>5. t.ack = Nothing
  <2> SUFFICES ASSUME t.ack # Nothing PROVE FALSE
    OBVIOUS
  <2>1. q[1].len < t.ack.len /\ t.ack.len = r
    BY <1>0, <1>1 DEF AcksInv
  <2> QED
    BY <1>1, <1>4, <2>1
<1>6. t.passing = Nothing
  BY <1>5
<1>7. PICK i \in 1..Len(g) : Bundle(g[i]) = s.request
  BY <1>0, <1>1, <1>3, <1>4, <1>6 DEF ProgressInv
<1>8. ASSUME NEW j \in 1..Len(p)
      PROVE  ~Segment(p[j])
  <2> SUFFICES ASSUME Segment(p[j]) PROVE FALSE
    OBVIOUS
  <2>1. p[j] \in Messages
    BY ElementOfSeq
  <2>2. p[j].data[2] \in Nat
    BY <2>1, MessageFields
  <2> QED
    BY <1>0, <1>1, <1>4, <2>2 DEF SegmentsInv
<1>9. ASSUME NEW j \in 1..Len(q2)
      PROVE  ~Acknowledges(q2[j])
  <2> SUFFICES ASSUME Acknowledges(q2[j]) PROVE FALSE
    OBVIOUS
  <2>1. q2[j] = q[j + 1] /\ j + 1 \in 1..Len(q) /\ 1 < j + 1
    BY <1>0 DEF IsTail
  <2>2. q[j + 1] \in Messages
    BY <2>1, ElementOfSeq
  <2>3. q[j + 1].len \in Nat
    BY <2>1, <2>2, MessageFields
  <2>4. q[1].len < q[j + 1].len /\ q[j + 1].len <= r
    BY <1>0, <1>1, <2>1 DEF AcksInv
  <2> QED
    BY <1>1, <1>4, <2>3, <2>4
<1>10. SegmentsInv(n, t, p, b, 0)
  BY <1>1, <1>8 DEF SegmentsInv
<1>11. AcksInv(n, t, q2, 0)
  BY <1>5, <1>9 DEF AcksInv
<1>12. ProgressInv(n, t, g, b, 0)
  BY <1>1, <1>3, <1>6 DEF ProgressInv
<1>13. ArrivedInv(n, g, b, w)
  <2>1. \A k \in DOMAIN n.results : n.results[k] = "ok" =>
          \E j \in 1..Len(g) : Bundle(g[j]) = k
    <3> SUFFICES ASSUME NEW k \in DOMAIN n.results, n.results[k] = "ok"
                 PROVE  \E j \in 1..Len(g) : Bundle(g[j]) = k
      OBVIOUS
    <3>1. k = s.request \/ (k \in DOMAIN s.results /\ s.results[k] = "ok")
      BY DEF TransferDone
    <3> QED
      BY <1>0, <1>7, <3>1 DEF ArrivedInv
  <2> QED
    BY <1>0, <1>1, <2>1 DEF ArrivedInv
<1> QED
  BY <1>10, <1>11, <1>12, <1>13 DEF TransferInv

\* A bundle is taken and its transfer begun.
TransferBegun(s, n, h) ==
  /\ s.request = 0 /\ n.request = h /\ h # 0 /\ n.results = s.results
  /\ n.tracker # Nothing => n.tracker.pos = 0

\* Nothing of it is under way.
LEMMA TransferBegunKeeps ==
  ASSUME NEW s, NEW t, NEW p \in Seq(Messages), NEW q \in Seq(Messages), NEW g, NEW b,
         NEW w \in Seq(Nat), NEW r \in Nat, TransferInv(s, t, p, q, g, b, w, r),
         NEW h, NEW w2, Taken(w, h, w2), NEW n, TransferBegun(s, n, h)
  PROVE  TransferInv(n, t, p, q, g, b, w2, 0)
<1>0. /\ SegmentsInv(s, t, p, b, r) /\ AcksInv(s, t, q, r) /\ ProgressInv(s, t, g, b, r)
      /\ ArrivedInv(s, g, b, w)
  BY DEF TransferInv
<1>1. /\ s.request = 0 /\ n.request = h /\ h # 0 /\ n.results = s.results
      /\ n.tracker # Nothing => n.tracker.pos = 0
  BY DEF TransferBegun
<1>2. t.receiving = Nothing /\ t.passing = Nothing /\ t.ack = Nothing
  BY <1>0, <1>1 DEF ProgressInv, AcksInv
<1>3. SegmentsInv(n, t, p, b, 0)
  BY <1>0, <1>1 DEF SegmentsInv
<1>4. AcksInv(n, t, q, 0)
  BY <1>0, <1>1, <1>2 DEF AcksInv
<1>5. \A i \in 1..Len(g) : Bundle(g[i]) < h /\ Bundle(g[i]) # h /\ Bundle(g[i]) <= h
  <2> TAKE i \in 1..Len(g)
  <2>1. Bundle(g[i]) < w[1] /\ Bundle(g[i]) \in 1..Len(b) /\ h = w[1] /\ h \in Nat
    BY <1>0 DEF ArrivedInv, Taken
  <2> QED
    BY <2>1
<1>6. ProgressInv(n, t, g, b, 0)
  BY <1>1, <1>2, <1>5 DEF ProgressInv
<1>7. \A i \in 1..Len(g) : \A j \in 1..Len(w2) : Bundle(g[i]) < w2[j]
  BY <1>0 DEF ArrivedInv, Taken
<1>8. ArrivedInv(n, g, b, w2)
  BY <1>0, <1>1, <1>5, <1>7 DEF ArrivedInv
<1> QED
  BY <1>3, <1>4, <1>6, <1>8 DEF TransferInv

\* A bundle that is refused changes nothing for any transfer.
LEMMA RefusedKeeps ==
  ASSUME NEW s, NEW t, NEW p, NEW q, NEW g, NEW b,
         NEW w \in Seq(Nat), NEW r, TransferInv(s, t, p, q, g, b, w, r),
         NEW h, NEW w2, Taken(w, h, w2), NEW n, Refused(s, n, h)
  PROVE  TransferInv(n, t, p, q, g, b, w2, r)
<1>0. /\ SegmentsInv(s, t, p, b, r) /\ AcksInv(s, t, q, r) /\ ProgressInv(s, t, g, b, r)
      /\ ArrivedInv(s, g, b, w)
  BY DEF TransferInv
<1>1. /\ n.request = s.request /\ n.last_used_transfer_id = s.last_used_transfer_id
      /\ n.tracker = s.tracker
  BY DEF Refused
<1>2. SegmentsInv(n, t, p, b, r)
  BY <1>0, <1>1 DEF SegmentsInv
<1>3. AcksInv(n, t, q, r)
  BY <1>0, <1>1 DEF AcksInv
<1>4. ProgressInv(n, t, g, b, r)
  BY <1>0, <1>1, Zenon DEF ProgressInv
<1>5. \A k \in DOMAIN n.results : n.results[k] = "ok" =>
        k \in DOMAIN s.results /\ s.results[k] = "ok"
  BY DEF Refused
<1>6. \A i \in 1..Len(g) : \A j \in 1..Len(w2) : Bundle(g[i]) < w2[j]
  BY <1>0 DEF ArrivedInv, Taken
<1>7. ArrivedInv(n, g, b, w2)
  BY <1>0, <1>1, <1>5, <1>6 DEF ArrivedInv
<1> QED
  BY <1>2, <1>3, <1>4, <1>7 DEF TransferInv

-------------------------------------------------------------------------------
(* Transfers: what the steps of the receiver keep *)

\* The receiver t does nothing for the transfer; a segment it reads is lost only
\* when it ends the session.
ReceiverRests(t, n) == SameReceiver(t, n) /\ (Over(t) => Over(n))
Skipped(p, p2, n) == p2 = p \/ (p # <<>> /\ p2 = Tail(p) /\ (~Segment(Head(p)) \/ Over(n)))

\* The segments behind one that is skipped stay as they are.
LEMMA SegmentsSkipped ==
  ASSUME NEW s, NEW t, NEW p \in Seq(Messages), NEW b, NEW r, SegmentsInv(s, t, p, b, r),
         NEW n, Over(t) => Over(n), NEW p2, Skipped(p, p2, n)
  PROVE  SegmentsInv(s, n, p2, b, r)
<1>1. SegmentsInv(s, n, p, b, r)
  BY DEF SegmentsInv
<1>2. ASSUME p # <<>>, p2 = Tail(p), ~Segment(Head(p)) \/ Over(n)
      PROVE  SegmentsInv(s, n, p2, b, r)
  <2>1. IsTail(p, p2) /\ Head(p) = p[1]
    BY <1>2, TailIs
  <2>2. \A i \in 1..Len(p2) : p2[i] = p[i + 1] /\ i + 1 \in 1..Len(p)
    BY <2>1 DEF IsTail
  <2>3. \A i, j \in 1..Len(p2) : i < j => i + 1 < j + 1
    BY <2>1 DEF IsTail
  <2>4. \A i, j \in 1..Len(p2) : (Segment(p2[i]) /\ Segment(p2[j]) /\ i < j)
          => p2[i].data[2] < p2[j].data[2]
    BY <1>1, <2>2, <2>3 DEF SegmentsInv
  <2>5. ASSUME NEW i \in 1..Len(p), Segment(p[i]), ~Over(n)
        PROVE  i - 1 \in 1..Len(p2) /\ p2[i - 1] = p[i]
    <3>1. i # 1
      BY <1>2, <2>1, <2>5
    <3>2. i - 1 \in 1..Len(p2) /\ (i - 1) + 1 = i
      BY <2>1, <3>1 DEF IsTail
    <3> QED
      BY <2>2, <3>2
  <2>6. ~Over(n) => \A j \in 1..Len(p2) : (Segment(p2[j]) /\ p2[j].data[2] > r + 1) =>
          \E i \in 1..(j - 1) : Segment(p2[i]) /\ p2[i].data[2] = p2[j].data[2] - 1
    <3> SUFFICES ASSUME ~Over(n), NEW j \in 1..Len(p2), Segment(p2[j]),
                        p2[j].data[2] > r + 1
                 PROVE  \E i \in 1..(j - 1) : /\ Segment(p2[i])
                                              /\ p2[i].data[2] = p2[j].data[2] - 1
      OBVIOUS
    <3>1. p2[j] = p[j + 1] /\ j + 1 \in 1..Len(p) /\ (j + 1) - 1 = j
      BY <2>2
    <3>2. PICK i \in 1..((j + 1) - 1) : Segment(p[i]) /\ p[i].data[2] = p[j + 1].data[2] - 1
      BY <1>1, <3>1 DEF SegmentsInv
    <3>3. i \in 1..Len(p)
      BY <2>1, <3>1 DEF IsTail
    <3>4. i - 1 \in 1..Len(p2) /\ p2[i - 1] = p[i]
      BY <2>5, <3>2, <3>3
    <3>5. i - 1 \in 1..(j - 1)
      BY <2>1, <3>4 DEF IsTail
    <3> QED
      BY <3>1, <3>2, <3>4, <3>5
  <2>7. (~Over(n) /\ s.tracker # Nothing /\ r < s.tracker.pos) =>
          \E i \in 1..Len(p2) : Segment(p2[i]) /\ p2[i].data[2] = s.tracker.pos
    <3> SUFFICES ASSUME ~Over(n), s.tracker # Nothing, r < s.tracker.pos
                 PROVE  \E i \in 1..Len(p2) : Segment(p2[i]) /\ p2[i].data[2] = s.tracker.pos
      OBVIOUS
    <3>1. PICK i \in 1..Len(p) : Segment(p[i]) /\ p[i].data[2] = s.tracker.pos
      BY <1>1 DEF SegmentsInv
    <3> QED
      BY <2>5, <3>1
  <2>8. /\ \A i \in 1..Len(p2) : Segment(p2[i]) =>
             /\ s.request # 0 /\ p2[i].id = s.last_used_transfer_id - 1
             /\ p2[i].data[1] = s.request /\ r < p2[i].data[2] /\ p2[i].data[2] <= b[s.request]
             /\ p2[i].end <=> p2[i].data[2] = b[s.request]
             /\ s.tracker # Nothing => p2[i].data[2] <= s.tracker.pos
        /\ s.tracker # Nothing => r <= s.tracker.pos
    BY <1>1, <2>2 DEF SegmentsInv
  <2> QED
    BY <2>4, <2>6, <2>7, <2>8 DEF SegmentsInv
<1> QED
  BY <1>1, <1>2 DEF Skipped

\* The receiver rests.
LEMMA ReceiverKeeps ==
  ASSUME NEW s, NEW t, NEW p \in Seq(Messages), NEW q \in Seq(Messages), NEW g, NEW b, NEW w,
         NEW r, TransferInv(s, t, p, q, g, b, w, r),
         NEW n, ReceiverRests(t, n), NEW p2, Skipped(p, p2, n), NEW q2, OtherAck(q, q2)
  PROVE  TransferInv(s, n, p2, q2, g, b, w, r)
<1>0. n.receiving = t.receiving /\ n.passing = t.passing /\ n.ack = t.ack
  BY DEF ReceiverRests, SameReceiver
<1>1. SegmentsInv(s, n, p2, b, r)
  BY SegmentsSkipped DEF TransferInv, ReceiverRests
<1>2. AcksInv(s, n, q2, r)
  <2>1. AcksInv(s, n, q, r)
    BY <1>0 DEF TransferInv, AcksInv
  <2>2. ASSUME NEW m \in Messages, ~Acknowledges(m), q2 = Append(q, m)
        PROVE  AcksInv(s, n, q2, r)
    <3>1. IsAppend(q, m, q2)
      BY <2>2, AppendIs
    <3>2. \A i \in 1..Len(q2) : Acknowledges(q2[i]) => i \in 1..Len(q) /\ q2[i] = q[i]
      BY <2>2, <3>1 DEF IsAppend
    <3> QED
      BY <2>1, <3>2 DEF AcksInv
  <2> QED
    BY <2>1, <2>2 DEF OtherAck
<1>3. ProgressInv(s, n, g, b, r)
  BY <1>0, Zenon DEF TransferInv, ProgressInv
<1> QED
  BY <1>1, <1>2, <1>3 DEF TransferInv

\* The acknowledgement m is sent.
AckSent(t, n, m) ==
  /\ n.receiving = t.receiving /\ n.passing = t.passing /\ n.ack = Nothing
  /\ (Over(t) => Over(n)) /\ t.ack # Nothing
  /\ m \in Messages /\ Acknowledges(m) /\ m.id = t.ack.id /\ m.len = t.ack.len

\* It is for more than the ones before.
LEMMA AckSentKeeps ==
  ASSUME NEW s, NEW t, NEW p \in Seq(Messages), NEW q \in Seq(Messages), NEW g, NEW b, NEW w,
         NEW r \in Nat, TransferInv(s, t, p, q, g, b, w, r),
         NEW n, NEW m, AckSent(t, n, m), NEW q2, q2 = Append(q, m)
  PROVE  TransferInv(s, n, p, q2, g, b, w, r)
<1>0. /\ n.receiving = t.receiving /\ n.passing = t.passing /\ n.ack = Nothing
      /\ t.ack # Nothing /\ m \in Messages /\ Acknowledges(m)
      /\ m.id = t.ack.id /\ m.len = t.ack.len /\ AcksInv(s, t, q, r)
  BY DEF AckSent, TransferInv
<1>1. SegmentsInv(s, n, p, b, r)
  BY DEF TransferInv, SegmentsInv, AckSent
<1>2. AcksInv(s, n, q2, r)
  <2>1. IsAppend(q, m, q2)
    BY <1>0, AppendIs
  <2>2. \A i \in 1..Len(q2) : (i \in 1..Len(q) /\ q2[i] = q[i]) \/ (i = Len(q) + 1 /\ q2[i] = m)
    BY <2>1 DEF IsAppend
  <2>3. s.request # 0 /\ m.id = s.last_used_transfer_id - 1 /\ m.len = r /\ 1 <= r
    BY <1>0 DEF AcksInv
  <2>4. \A i \in 1..Len(q2) : Acknowledges(q2[i]) =>
          /\ s.request # 0 /\ q2[i].id = s.last_used_transfer_id - 1
          /\ 1 <= q2[i].len /\ q2[i].len <= r
    BY <1>0, <2>2, <2>3 DEF AcksInv
  <2>5. ASSUME NEW i \in 1..Len(q2), NEW j \in 1..Len(q2), Acknowledges(q2[i]),
               Acknowledges(q2[j]), i < j
        PROVE  q2[i].len < q2[j].len
    <3>1. i \in 1..Len(q) /\ q2[i] = q[i]
      BY <2>1, <2>2, <2>5 DEF IsAppend
    <3>2. CASE j \in 1..Len(q) /\ q2[j] = q[j]
      BY <1>0, <2>5, <3>1, <3>2 DEF AcksInv
    <3>3. CASE j = Len(q) + 1 /\ q2[j] = m
      BY <1>0, <2>5, <3>1, <3>3 DEF AcksInv
    <3> QED
      BY <2>2, <3>2, <3>3
  <2> QED
    BY <1>0, <2>4, <2>5 DEF AcksInv
<1>3. ProgressInv(s, n, g, b, r)
  BY <1>0, Zenon DEF TransferInv, ProgressInv
<1> QED
  BY <1>1, <1>2, <1>3 DEF TransferInv

\* The transfer that the segment m makes of what t has received.
Joined(t, m) ==
  [id |-> IF t.receiving = Nothing THEN m.id ELSE t.receiving.id,
   data |-> IF t.receiving = Nothing THEN <<m.data>> ELSE Append(t.receiving.data, m.data)]

\* Units are units.
LEMMA UnitsAre ==
  ASSUME NEW n \in Nat, NEW k \in Nat
  PROVE  /\ Units(n, k) \in Seq(Nat \X Nat) /\ Len(Units(n, k)) = k
         /\ Append(Units(n, k), <<n, k + 1>>) = Units(n, k + 1)
         /\ <<<<n, 1>>>> = Units(n, 1)
         /\ k > 0 => Units(n, k)[1][1] = n
<1>1. Units(n, k) \in Seq(Nat \X Nat) /\ Len(Units(n, k)) = k
  BY DEF Units
<1>2. Append(Units(n, k), <<n, k + 1>>) = Units(n, k + 1)
  BY DEF Units
<1>3. <<<<n, 1>>>> = Units(n, 1)
  BY DEF Units
<1> QED
  BY <1>1, <1>2, <1>3 DEF Units

\* m is the segment that comes after the first r.
Expected(s, t, m, b, r) ==
  /\ s.request # 0 /\ m.id = s.last_used_transfer_id - 1
  /\ m.data = <<s.request, r + 1>> /\ r < b[s.request]
  /\ m.end <=> r + 1 = b[s.request]
  /\ Joined(t, m).id = m.id /\ Joined(t, m).data = Units(s.request, r + 1)
  /\ s.request \in Nat

\* A segment that a session takes is the next one of the transfer.
LEMMA SegmentExpected ==
  ASSUME NEW s, NEW t, NEW p \in Seq(Messages), NEW q, NEW g, NEW b, NEW w,
         NEW r \in Nat, TransferInv(s, t, p, q, g, b, w, r), p # <<>>, Segment(Head(p)),
         ~Over(t), t.passing = Nothing, s.request # 0 => b[s.request] \in Nat,
         NEW m, m = Head(p)
  PROVE  Expected(s, t, m, b, r)
<1>0. /\ SegmentsInv(s, t, p, b, r) /\ ProgressInv(s, t, g, b, r)
      /\ m = p[1] /\ 1 \in 1..Len(p) /\ m \in Messages
  BY TailIs, ElementOfSeq DEF TransferInv
<1>1. m.data \in Nat \X Nat /\ m.data[1] \in Nat /\ m.data[2] \in Nat
  BY <1>0, MessageFields
<1>2. /\ s.request # 0 /\ m.id = s.last_used_transfer_id - 1
      /\ m.data[1] = s.request /\ r < m.data[2] /\ m.data[2] <= b[s.request]
      /\ m.end <=> m.data[2] = b[s.request]
  BY <1>0 DEF SegmentsInv
<1>3. m.data[2] = r + 1
  <2> SUFFICES ASSUME m.data[2] > r + 1 PROVE FALSE
    BY <1>1, <1>2
  <2>1. \E i \in 1..(1 - 1) : Segment(p[i])
    BY <1>0 DEF SegmentsInv
  <2> QED
    BY <2>1
<1>4. m.data = <<s.request, r + 1>>
  BY <1>1, <1>2, <1>3
<1>5. b[s.request] \in Nat /\ r < b[s.request]
  BY <1>2, <1>3
<1>6. CASE t.receiving = Nothing
  <2>1. r = 0
    BY <1>0, <1>2, <1>5, <1>6 DEF ProgressInv
  <2>2. Joined(t, m).id = m.id /\ Joined(t, m).data = <<m.data>>
    BY <1>6 DEF Joined
  <2>3. <<<<s.request, 1>>>> = Units(s.request, 1)
    BY <1>1, <1>2, UnitsAre
  <2> QED
    BY <1>1, <1>2, <1>3, <1>4, <1>5, <2>1, <2>2, <2>3 DEF Expected
<1>7. CASE t.receiving # Nothing
  <2>1. t.receiving.id = m.id /\ t.receiving.data = Units(s.request, r)
    BY <1>0, <1>2, <1>7 DEF ProgressInv
  <2>2. Joined(t, m).id = m.id /\ Joined(t, m).data = Append(Units(s.request, r), m.data)
    BY <1>7, <2>1 DEF Joined
  <2>3. Append(Units(s.request, r), <<s.request, r + 1>>) = Units(s.request, r + 1)
    BY <1>1, <1>2, UnitsAre
  <2> QED
    BY <1>1, <1>2, <1>3, <1>4, <1>5, <2>2, <2>3 DEF Expected
<1> QED
  BY <1>6, <1>7

\* The segment m is taken: the transfer goes on, or is complete and waits for room
\* in the channel.
SegmentTaken(t, n, m, k, end) ==
  /\ n.ack # Nothing /\ n.ack.id = m.id /\ n.ack.len = k /\ ~Over(t)
  /\ IF end THEN /\ n.receiving = Nothing /\ n.passing # Nothing
                 /\ n.passing.data = Joined(t, m).data
     ELSE /\ n.passing = Nothing /\ n.receiving # Nothing
          /\ n.receiving.id = m.id /\ n.receiving.data = Joined(t, m).data

\* The receiver has one unit more.
LEMMA SegmentTakenKeeps ==
  ASSUME NEW s, NEW t, NEW p \in Seq(Messages), NEW q \in Seq(Messages), NEW g, NEW b, NEW w,
         NEW r \in Nat, TransferInv(s, t, p, q, g, b, w, r), p # <<>>, Segment(Head(p)),
         t.passing = Nothing, t.ack = Nothing, s.request # 0 => b[s.request] \in Nat,
         s.tracker # Nothing => s.tracker.pos \in Nat,
         NEW n, NEW m, m = Head(p), SegmentTaken(t, n, m, r + 1, m.end),
         NEW p2, p2 = Tail(p)
  PROVE  TransferInv(s, n, p2, q, g, b, w, r + 1)
<1>0. /\ SegmentsInv(s, t, p, b, r) /\ AcksInv(s, t, q, r) /\ ProgressInv(s, t, g, b, r)
      /\ ArrivedInv(s, g, b, w) /\ IsTail(p, p2) /\ m = p[1] /\ 1 \in 1..Len(p)
  BY TailIs DEF TransferInv
<1>1. ~Over(t)
  BY DEF SegmentTaken
<1>2. /\ s.request # 0 /\ m.id = s.last_used_transfer_id - 1
      /\ m.data = <<s.request, r + 1>> /\ r < b[s.request]
      /\ m.end <=> r + 1 = b[s.request]
      /\ Joined(t, m).id = m.id /\ Joined(t, m).data = Units(s.request, r + 1)
      /\ m.data[2] = r + 1 /\ b[s.request] \in Nat
  <2>1. /\ s.request # 0 /\ m.id = s.last_used_transfer_id - 1
        /\ m.data = <<s.request, r + 1>> /\ r < b[s.request]
        /\ m.end <=> r + 1 = b[s.request]
        /\ Joined(t, m).id = m.id /\ Joined(t, m).data = Units(s.request, r + 1)
    <3>1. Expected(s, t, m, b, r)
      BY <1>1, SegmentExpected
    <3> QED
      BY <3>1 DEF Expected
  <2>2. <<s.request, r + 1>>[2] = r + 1
    OBVIOUS
  <2> QED
    BY <2>1, <2>2
<1>3. \A i \in 1..Len(p2) : p2[i] = p[i + 1] /\ i + 1 \in 1..Len(p) /\ 1 < i + 1
  BY <1>0 DEF IsTail
<1>4. \A i \in 1..Len(p) : Segment(p[i]) => p[i].data[2] \in Nat
  <2> TAKE i \in 1..Len(p)
  <2>1. p[i] \in Messages
    BY ElementOfSeq
  <2> QED
    BY <2>1, MessageFields
<1>5. \A i \in 1..Len(p2) : Segment(p2[i]) => r + 1 < p2[i].data[2]
  BY <1>0, <1>2, <1>3 DEF SegmentsInv
<1>6. \A i, j \in 1..Len(p2) : (Segment(p2[i]) /\ Segment(p2[j]) /\ i < j)
        => p2[i].data[2] < p2[j].data[2]
  <2>1. \A i, j \in 1..Len(p2) : i < j => i + 1 < j + 1
    BY <1>0 DEF IsTail
  <2> QED
    BY <1>0, <1>3, <2>1 DEF SegmentsInv
<1>7. ASSUME NEW i \in 1..Len(p), Segment(p[i]), p[i].data[2] > r + 1
      PROVE  i - 1 \in 1..Len(p2) /\ p2[i - 1] = p[i]
  <2>1. i # 1
    BY <1>0, <1>2, <1>7
  <2>2. i - 1 \in 1..Len(p2) /\ (i - 1) + 1 = i
    BY <1>0, <2>1 DEF IsTail
  <2> QED
    BY <1>3, <2>2
<1>8. \A j \in 1..Len(p2) : (Segment(p2[j]) /\ p2[j].data[2] > (r + 1) + 1) =>
        \E i \in 1..(j - 1) : Segment(p2[i]) /\ p2[i].data[2] = p2[j].data[2] - 1
  <2> SUFFICES ASSUME NEW j \in 1..Len(p2), Segment(p2[j]), p2[j].data[2] > (r + 1) + 1
               PROVE  \E i \in 1..(j - 1) : /\ Segment(p2[i])
                                            /\ p2[i].data[2] = p2[j].data[2] - 1
    OBVIOUS
  <2>1. p2[j] = p[j + 1] /\ j + 1 \in 1..Len(p) /\ (j + 1) - 1 = j
    BY <1>3
  <2>2. p[j + 1].data[2] \in Nat /\ p[j + 1].data[2] > r + 1 /\ Segment(p[j + 1])
    BY <1>4, <2>1
  <2>3. PICK i \in 1..((j + 1) - 1) : Segment(p[i]) /\ p[i].data[2] = p[j + 1].data[2] - 1
    BY <1>0, <1>1, <2>1, <2>2 DEF SegmentsInv
  <2>4. i \in 1..Len(p)
    BY <1>0, <2>1 DEF IsTail
  <2>5. p[i].data[2] > r + 1
    BY <2>1, <2>2, <2>3
  <2>6. i - 1 \in 1..Len(p2) /\ p2[i - 1] = p[i]
    BY <1>7, <2>3, <2>4, <2>5
  <2>7. i - 1 \in 1..(j - 1)
    BY <1>0, <2>6 DEF IsTail
  <2> QED
    BY <2>1, <2>3, <2>6, <2>7
<1>9. s.tracker # Nothing => r + 1 <= s.tracker.pos
  BY <1>0, <1>2 DEF SegmentsInv
<1>10. (s.tracker # Nothing /\ r + 1 < s.tracker.pos) =>
         \E i \in 1..Len(p2) : Segment(p2[i]) /\ p2[i].data[2] = s.tracker.pos
  <2> SUFFICES ASSUME s.tracker # Nothing, r + 1 < s.tracker.pos
               PROVE  \E i \in 1..Len(p2) : Segment(p2[i]) /\ p2[i].data[2] = s.tracker.pos
    OBVIOUS
  <2>1. r < s.tracker.pos
    OBVIOUS
  <2>2. PICK i \in 1..Len(p) : Segment(p[i]) /\ p[i].data[2] = s.tracker.pos
    BY <1>0, <1>1, <2>1 DEF SegmentsInv
  <2>3. p[i].data[2] > r + 1
    BY <1>4, <2>2
  <2> QED
    BY <1>7, <2>2, <2>3
<1>11. \A i \in 1..Len(p2) : Segment(p2[i]) =>
         /\ s.request # 0 /\ p2[i].id = s.last_used_transfer_id - 1
         /\ p2[i].data[1] = s.request /\ r + 1 < p2[i].data[2]
         /\ p2[i].data[2] <= b[s.request]
         /\ p2[i].end <=> p2[i].data[2] = b[s.request]
         /\ s.tracker # Nothing => p2[i].data[2] <= s.tracker.pos
  BY <1>0, <1>3, <1>5 DEF SegmentsInv
<1>12. SegmentsInv(s, n, p2, b, r + 1)
  BY <1>6, <1>8, <1>9, <1>10, <1>11 DEF SegmentsInv
<1>13. AcksInv(s, n, q, r + 1)
  <2>1. \A i \in 1..Len(q) : Acknowledges(q[i]) => q[i].len \in Nat
    <3> TAKE i \in 1..Len(q)
    <3>1. q[i] \in Messages
      BY ElementOfSeq
    <3> QED
      BY <3>1, MessageFields
  <2>2. n.ack # Nothing /\ n.ack.id = m.id /\ n.ack.len = r + 1
    BY DEF SegmentTaken
  <2> QED
    BY <1>0, <1>2, <2>1, <2>2 DEF AcksInv
<1>14. ProgressInv(s, n, g, b, r + 1)
  <2>1. \A i \in 1..Len(g) : Bundle(g[i]) # s.request
    <3>1. CASE t.receiving # Nothing
      BY <1>0, <1>2, <3>1 DEF ProgressInv
    <3>2. CASE t.receiving = Nothing
      BY <1>0, <1>2, <3>2 DEF ProgressInv
    <3> QED
      BY <3>1, <3>2
  <2>2. CASE m.end
    <3>1. /\ n.receiving = Nothing /\ n.passing # Nothing
          /\ n.passing.data = Units(s.request, r + 1) /\ r + 1 = b[s.request]
      BY <1>2, <2>2 DEF SegmentTaken
    <3> QED
      BY <1>2, <2>1, <3>1 DEF ProgressInv
  <2>3. CASE ~m.end
    <3>1. /\ n.passing = Nothing /\ n.receiving # Nothing
          /\ n.receiving.id = m.id /\ n.receiving.data = Units(s.request, r + 1)
          /\ r + 1 # b[s.request]
      BY <1>2, <2>3 DEF SegmentTaken
    <3>2. 1 <= r + 1 /\ r + 1 < b[s.request]
      BY <1>2, <3>1
    <3> QED
      BY <1>2, <2>1, <3>1, <3>2 DEF ProgressInv
  <2> QED
    BY <2>2, <2>3
<1> QED
  BY <1>0, <1>12, <1>13, <1>14 DEF TransferInv

\* The transfer that waits is passed to the agent.
PassedUp(t, n) ==
  /\ t.passing # Nothing /\ n.receiving = t.receiving /\ n.passing = Nothing
  /\ n.ack = t.ack /\ (Over(t) => Over(n))

\* It has arrived.
LEMMA PassedUpKeeps ==
  ASSUME NEW s, NEW t, NEW p, NEW q, NEW g \in Seq(Transfers),
         NEW b \in Seq(Nat \ {0}), NEW w \in Seq(Nat),
         NEW r \in Nat, TransferInv(s, t, p, q, g, b, w, r),
         s.request # 0 => s.request \in 1..Len(b), QueueInv(s, w),
         t.passing \in Transfers, NEW n, PassedUp(t, n), NEW g2, g2 = Append(g, t.passing)
  PROVE  TransferInv(s, n, p, q, g2, b, w, r)
<1>0. /\ SegmentsInv(s, t, p, b, r) /\ AcksInv(s, t, q, r) /\ ProgressInv(s, t, g, b, r)
      /\ ArrivedInv(s, g, b, w)
      /\ t.passing # Nothing /\ n.receiving = t.receiving /\ n.passing = Nothing
      /\ n.ack = t.ack
  BY DEF TransferInv, PassedUp
<1>1. /\ s.request # 0 /\ r = b[s.request] /\ t.passing.data = Units(s.request, r)
      /\ t.receiving = Nothing /\ \A i \in 1..Len(g) : Bundle(g[i]) # s.request
  BY <1>0 DEF ProgressInv
<1>2. s.request \in 1..Len(b) /\ s.request \in Nat /\ b[s.request] \in Nat /\ b[s.request] > 0
  BY <1>1
<1>3. Bundle(t.passing) = s.request
  <2>1. Units(s.request, r)[1][1] = s.request
    BY <1>1, <1>2, UnitsAre
  <2> QED
    BY <1>1, <2>1 DEF Bundle
<1>4. /\ Len(g2) = Len(g) + 1 /\ Len(g) \in Nat /\ g2[Len(g) + 1] = t.passing
      /\ \A i \in 1..Len(g) : g2[i] = g[i] /\ i \in 1..Len(g2)
  <2>1. PICK e \in Transfers : e = t.passing
    OBVIOUS
  <2>2. g2 = Append(g, e)
    BY <2>1
  <2>3. /\ Len(g2) = Len(g) + 1 /\ Len(g) \in Nat /\ g2[Len(g) + 1] = e
        /\ \A i \in 1..Len(g) : g2[i] = g[i] /\ i \in 1..Len(g2)
    BY <2>2
  <2> QED
    BY <2>1, <2>3
<1>5. \A i \in 1..Len(g2) : (i \in 1..Len(g) /\ g2[i] = g[i])
                            \/ (i = Len(g) + 1 /\ g2[i] = t.passing)
  <2>1. PICK k \in Nat : k = Len(g)
    BY <1>4
  <2>2. \A i \in 1..(k + 1) : i \in 1..k \/ i = k + 1
    OBVIOUS
  <2> QED
    BY <1>4, <2>1, <2>2
<1>6. SegmentsInv(s, n, p, b, r)
  BY <1>0 DEF SegmentsInv, PassedUp
<1>7. AcksInv(s, n, q, r)
  BY <1>0 DEF AcksInv
<1>8. ProgressInv(s, n, g2, b, r)
  <2>1. \E i \in 1..Len(g2) : Bundle(g2[i]) = s.request
    <3>1. Len(g) + 1 \in 1..Len(g2)
      BY <1>4
    <3> QED
      BY <1>3, <1>4, <3>1
  <2> QED
    BY <1>0, <1>1, <2>1 DEF ProgressInv
<1>9. ArrivedInv(s, g2, b, w)
  <2>1. ASSUME NEW i \in 1..Len(g2)
        PROVE  /\ Bundle(g2[i]) \in 1..Len(b)
               /\ g2[i].data = Units(Bundle(g2[i]), b[Bundle(g2[i])])
               /\ s.request # 0 => Bundle(g2[i]) <= s.request
               /\ \A j \in 1..Len(w) : Bundle(g2[i]) < w[j]
    <3>1. CASE i \in 1..Len(g) /\ g2[i] = g[i]
      BY <1>0, <3>1 DEF ArrivedInv
    <3>2. CASE i = Len(g) + 1 /\ g2[i] = t.passing
      BY <1>1, <1>2, <1>3, <3>2 DEF QueueInv
    <3> QED
      BY <1>5, <3>1, <3>2
  <2>2. ASSUME NEW i \in 1..Len(g2), NEW j \in 1..Len(g2), i < j
        PROVE  Bundle(g2[i]) < Bundle(g2[j])
    <3>1. i \in 1..Len(g) /\ g2[i] = g[i]
      BY <1>4, <1>5, <2>2
    <3>2. CASE j \in 1..Len(g) /\ g2[j] = g[j]
      BY <1>0, <2>2, <3>1, <3>2 DEF ArrivedInv
    <3>3. CASE j = Len(g) + 1 /\ g2[j] = t.passing
      <4>1. Bundle(g[i]) <= s.request /\ Bundle(g[i]) # s.request /\ Bundle(g[i]) \in 1..Len(b)
        BY <1>0, <1>1, <3>1 DEF ArrivedInv
      <4> QED
        BY <1>2, <1>3, <3>1, <3>3, <4>1
    <3> QED
      BY <1>5, <3>2, <3>3
  <2>3. \A k \in DOMAIN s.results : s.results[k] = "ok" =>
          \E i \in 1..Len(g2) : Bundle(g2[i]) = k
    <3> SUFFICES ASSUME NEW k \in DOMAIN s.results, s.results[k] = "ok"
                 PROVE  \E i \in 1..Len(g2) : Bundle(g2[i]) = k
      OBVIOUS
    <3>1. PICK i \in 1..Len(g) : Bundle(g[i]) = k
      BY <1>0 DEF ArrivedInv
    <3> QED
      BY <1>4, <3>1
  <2> QED
    BY <2>1, <2>2, <2>3 DEF ArrivedInv
<1> QED
  BY <1>6, <1>7, <1>8, <1>9 DEF TransferInv

-------------------------------------------------------------------------------
(* From the lemmas to the directions *)

\* What the two ends have for the transfers of x.
LEMMA DirectionIs ==
  ASSUME NEW x \in Ends, DirectionInv(x)
  PROVE  \E r \in Nat : TransferInv(session[x], session[Peer(x)], Pipe(x), Pipe(Peer(x)),
                                    Received(Peer(x)), Bundles(x), Queue(x), r)
BY DEF DirectionInv

\* And after a step.
LEMMA DirectionNext ==
  ASSUME NEW x \in Ends, NEW r \in Nat, UNCHANGED scenario,
         TransferInv(session'[x], session'[Peer(x)], Pipe(x)', Pipe(Peer(x))',
                     Received(Peer(x))', Bundles(x), Queue(x)', r)
  PROVE  DirectionInv(x)'
<1>1. Bundles(x)' = Bundles(x)
  BY DEF Bundles
<1> QED
  BY <1>1 DEF DirectionInv

\* What the transfers of x do not share with those of its peer.
SenderFrame(x) == UNCHANGED scenario /\ session'[Peer(x)] = session[Peer(x)]
                  /\ Queue(x)' = Queue(x) /\ Received(Peer(x))' = Received(Peer(x))
ReceiverFrame(x) == UNCHANGED scenario /\ session'[Peer(x)] = session[Peer(x)]
                    /\ Queue(Peer(x))' = Queue(Peer(x)) /\ Received(x)' = Received(x)

\* End x does nothing for the transfer it sends.
LEMMA SenderAlone ==
  ASSUME TypeInv, NEW x \in Ends, SenderFrame(x), DirectionInv(x),
         SenderRests(session[x], session'[x]), OtherSegment(Pipe(x), Pipe(x)'),
         Read(Pipe(Peer(x)), Pipe(Peer(x))')
  PROVE  DirectionInv(x)'
<1>1. PICK r \in Nat : TransferInv(session[x], session[Peer(x)], Pipe(x), Pipe(Peer(x)),
                                   Received(Peer(x)), Bundles(x), Queue(x), r)
  BY DirectionIs
<1>2. Pipe(x) \in Seq(Messages) /\ Pipe(Peer(x)) \in Seq(Messages) /\ Peer(x) \in Ends
  BY PipeType, ScenarioType
<1>3. PICK n : n = session'[x]
  OBVIOUS
<1>4. PICK p2 : p2 = Pipe(x)'
  OBVIOUS
<1>5. PICK q2 : q2 = Pipe(Peer(x))'
  OBVIOUS
<1>6. TransferInv(n, session[Peer(x)], p2, q2, Received(Peer(x)), Bundles(x), Queue(x), r)
  BY <1>1, <1>2, <1>3, <1>4, <1>5, SenderKeeps
<1>7. TransferInv(session'[x], session'[Peer(x)], Pipe(x)', Pipe(Peer(x))',
                  Received(Peer(x))', Bundles(x), Queue(x)', r)
  BY <1>2, <1>3, <1>4, <1>5, <1>6 DEF SenderFrame
<1> QED
  BY <1>7, DirectionNext DEF SenderFrame

\* And leaves the rest alone.
LEMMA SenderStep ==
  ASSUME TypeInv, NEW x \in Ends, Frame(x), DirectionInv(x),
         SenderRests(session[x], session'[x]), OtherSegment(Pipe(x), Pipe(x)'),
         Read(Pipe(Peer(x)), Pipe(Peer(x))')
  PROVE  DirectionInv(x)'
<1>1. SenderFrame(x)
  BY ScenarioType DEF Frame, SenderFrame
<1> QED
  BY <1>1, SenderAlone

\* End x does nothing for the transfer it receives.
LEMMA ReceiverAlone ==
  ASSUME TypeInv, NEW x \in Ends, ReceiverFrame(x), DirectionInv(Peer(x)),
         ReceiverRests(session[x], session'[x]),
         Skipped(Pipe(Peer(x)), Pipe(Peer(x))', session'[x]), OtherAck(Pipe(x), Pipe(x)')
  PROVE  DirectionInv(Peer(x))'
<1>0. PICK y \in Ends : y = Peer(x) /\ Peer(y) = x
  BY ScenarioType
<1>1. PICK r \in Nat : TransferInv(session[y], session[x], Pipe(y), Pipe(x),
                                   Received(x), Bundles(y), Queue(y), r)
  BY <1>0, DirectionIs
<1>2. Pipe(x) \in Seq(Messages) /\ Pipe(y) \in Seq(Messages)
  BY PipeType
<1>3. PICK n : n = session'[x]
  OBVIOUS
<1>4. PICK p2 : p2 = Pipe(y)'
  OBVIOUS
<1>5. PICK q2 : q2 = Pipe(x)'
  OBVIOUS
<1>6. ReceiverRests(session[x], n) /\ Skipped(Pipe(y), p2, n) /\ OtherAck(Pipe(x), q2)
  BY <1>0, <1>3, <1>4, <1>5
<1>7. TransferInv(session[y], n, p2, q2, Received(x), Bundles(y), Queue(y), r)
  BY <1>1, <1>2, <1>6, ReceiverKeeps
<1>8. TransferInv(session'[y], session'[Peer(y)], Pipe(y)', Pipe(Peer(y))',
                  Received(Peer(y))', Bundles(y), Queue(y)', r)
  BY <1>0, <1>3, <1>4, <1>5, <1>7 DEF ReceiverFrame
<1> QED
  BY <1>0, <1>8, DirectionNext DEF ReceiverFrame

\* And leaves the rest alone.
LEMMA ReceiverStep ==
  ASSUME TypeInv, NEW x \in Ends, Frame(x), DirectionInv(Peer(x)),
         ReceiverRests(session[x], session'[x]),
         Skipped(Pipe(Peer(x)), Pipe(Peer(x))', session'[x]), OtherAck(Pipe(x), Pipe(x)')
  PROVE  DirectionInv(Peer(x))'
<1>1. ReceiverFrame(x)
  BY ScenarioType DEF Frame, ReceiverFrame
<1> QED
  BY <1>1, ReceiverAlone

\* End x panics or rejects nothing.
LEMMA RejectKeeps ==
  ASSUME RejectInv, NEW x \in Ends, session'[Peer(x)] = session[Peer(x)],
         session'[x].outcome \in {session[x].outcome, "closed", "failed"},
         session'[x].state = "SendMsgReject" => session'[x].terminating
  PROVE  RejectInv'
<1>1. \A y \in Ends : y = x \/ y = Peer(x)
  BY DEF Ends, Peer
<1> QED
  BY <1>1 DEF RejectInv

\* What a step of x has to keep for the transfers.
LEMMA TransferringKeeps ==
  ASSUME TypeInv, Transferring, NEW x \in Ends, UNCHANGED scenario,
         Unblocked /\ DirectionInv(x) /\ DirectionInv(Peer(x)) /\ RejectInv =>
           DirectionInv(x)' /\ DirectionInv(Peer(x))' /\ RejectInv'
  PROVE  Transferring'
<1>1. Unblocked' <=> Unblocked
  BY DEF Unblocked
<1>2. Peer(x) \in Ends /\ \A y \in Ends : y = x \/ y = Peer(x)
  BY ScenarioType
<1>3. ASSUME Unblocked'
      PROVE  (\A y \in Ends : DirectionInv(y)') /\ RejectInv'
  <2>1. DirectionInv(x)' /\ DirectionInv(Peer(x))' /\ RejectInv'
    BY <1>1, <1>2, <1>3 DEF Transferring
  <2>2. ASSUME NEW y \in Ends
        PROVE  DirectionInv(y)'
    BY <1>2, <2>1
  <2> QED
    BY <2>1, <2>2
<1> QED
  BY <1>3 DEF Transferring

\* End x does nothing for either transfer.
LEMMA BothRest ==
  ASSUME TypeInv, Transferring, NEW x \in Ends, Frame(x),
         Unblocked => /\ SenderRests(session[x], session'[x])
                      /\ ReceiverRests(session[x], session'[x])
                      /\ OtherSegment(Pipe(x), Pipe(x)') /\ OtherAck(Pipe(x), Pipe(x)')
                      /\ Skipped(Pipe(Peer(x)), Pipe(Peer(x))', session'[x]),
         session'[x].outcome \in {session[x].outcome, "closed", "failed"},
         (Unblocked /\ RejectInv /\ session'[x].state = "SendMsgReject") =>
           session'[x].terminating
  PROVE  Transferring'
<1> SUFFICES ASSUME Unblocked, DirectionInv(x), DirectionInv(Peer(x)), RejectInv
             PROVE  DirectionInv(x)' /\ DirectionInv(Peer(x))' /\ RejectInv'
  BY TransferringKeeps DEF Frame
<1>1. DirectionInv(x)'
  <2>1. Read(Pipe(Peer(x)), Pipe(Peer(x))')
    BY DEF Read, Skipped
  <2> QED
    BY <2>1, SenderStep
<1>2. DirectionInv(Peer(x))'
  BY ReceiverStep
<1>3. RejectInv'
  BY RejectKeeps DEF Frame
<1> QED
  BY <1>1, <1>2, <1>3

-------------------------------------------------------------------------------
(* Writing *)

\* The head of the loop changes a transfer only when it is done.
LEMMA HeadSame ==
  ASSUME NEW n, NEW m, Headed(n, m), is_established(n) => n.request = 0
  PROVE  /\ SameSender(n, m) /\ SameReceiver(n, m) /\ m.tracker = n.tracker
         /\ m.state = n.state /\ m.terminating = n.terminating
         /\ m.outcome \in {n.outcome, "closed"}
<1>1. /\ m.state = n.state /\ m.tracker = n.tracker /\ m.ack = n.ack
      /\ m.terminating = n.terminating /\ m.receiving = n.receiving
      /\ m.passing = n.passing /\ m.last_used_transfer_id = n.last_used_transfer_id
  BY DEF Headed
<1>2. m.request = n.request /\ m.results = n.results
  BY DEF Headed
<1>3. m.outcome \in {n.outcome, "closed"}
  BY DEF Headed
<1> QED
  BY <1>1, <1>2, <1>3 DEF SameSender, SameReceiver

\* A message of s was sent, and m is the session afterwards.
Completed(s, m) ==
  /\ SameSender(s, m) /\ m.tracker = s.tracker
  /\ m.receiving = s.receiving /\ m.passing = s.passing
  /\ m.ack = IF s.nested = 0 /\ s.state \in Acking THEN Nothing ELSE s.ack
  /\ m.state \notin HandshakeStates /\ (Over(s) => Over(m))
  /\ m.outcome \in {s.outcome, "closed"}
  /\ m.state = "SendMsgReject" => s.state = "SendMsgReject" /\ m.terminating = s.terminating

\* What sending a message changes.
LEMMA CompletedIs ==
  ASSUME NEW b \in Seq(Nat), NEW s \in Sessions(b), StateInv(s, b),
         s.nested > 0 \/ s.state \notin Waits \cup {"ConnectionClose"},
         s.state \notin HandshakeStates,
         NEW n, n = send_complete(s), NEW m, Headed(n, m)
  PROVE  Completed(s, m)
<1>1. Kept(s, n) /\ n \in Sessions(b)
  BY CompleteEffect
<1>2. /\ n.state \notin HandshakeStates /\ (Over(s) => Over(n))
      /\ n.ack = IF s.nested = 0 /\ s.state \in Acking THEN Nothing ELSE s.ack
      /\ n.state = "SendMsgReject" => s.state = "SendMsgReject" /\ n.terminating = s.terminating
      /\ is_established(n) => s.request = 0
  <2>1. CASE s.nested > 0
    <3>1. n = [s EXCEPT !.nested = @ - 1]
      BY <2>1, KeepaliveFirst DEF Sessions
    <3>2. n.state = s.state /\ n.ack = s.ack /\ n.terminating = s.terminating
      BY <2>1, <3>1, Unnested
    <3> QED
      BY <2>1, <3>2 DEF Over, is_established, StateInv
  <2>2. CASE s.nested = 0 /\ s.state = "SendXferAck"
    <3>1. n = [s EXCEPT !.state = "SessionEstablished", !.ack = Nothing]
      BY <2>2, TransferSends
    <3>2. n.state = "SessionEstablished" /\ n.ack = Nothing
      BY <3>1 DEF Sessions
    <3> QED
      BY <2>2, <3>2 DEF Over, Acking, StateInv, HandshakeStates
  <2>3. CASE s.nested = 0 /\ s.state = "SendXferSegmentsAndAck"
    <3>1. n = [s EXCEPT !.state = "SendXferSegments", !.ack = Nothing]
      BY <2>3, TransferSends
    <3>2. n.state = "SendXferSegments" /\ n.ack = Nothing
      BY <3>1 DEF Sessions
    <3> QED
      BY <2>3, <3>2 DEF Over, Acking, HandshakeStates, is_established
  <2>4. CASE s.nested = 0 /\ s.state = "SendXferSegments"
    <3>1. s.tracker \in Trackers /\ s.tracker.acked < s.tracker.len
      BY <2>4 DEF StateInv, Segmenting, Sessions
    <3>2. s.tracker.acked # s.tracker.len
      BY <3>1 DEF Trackers
    <3>3. n = s
      BY <2>4, <3>2, TransferSends
    <3> QED
      BY <2>4, <3>3 DEF Over, Acking, HandshakeStates, is_established
  <2>5. CASE s.nested = 0 /\ s.state \in {"SendSessTerm", "SendMsgReject"}
    <3>1. n.state \in {"ConnectionClose", "WaitSessTerm"} /\ n.ack = s.ack
      <4>1. CASE s.state = "SendSessTerm"
        <5>1. PICK c \in {"ConnectionClose", "WaitSessTerm"} :
                c = IF s.terminating THEN "ConnectionClose" ELSE "WaitSessTerm"
          OBVIOUS
        <5>2. n = [s EXCEPT !.state = c, !.terminating = TRUE]
          BY <2>5, <4>1, <5>1, ClosingSends
        <5> QED
          BY <5>1, <5>2 DEF Sessions
      <4>2. CASE s.state = "SendMsgReject"
        <5>1. n = [s EXCEPT !.state = "ConnectionClose", !.terminating = TRUE]
          BY <2>5, <4>2, ClosingSends
        <5> QED
          BY <5>1 DEF Sessions
      <4> QED
        BY <2>5, <4>1, <4>2
    <3> QED
      BY <2>5, <3>1 DEF Over, Acking, HandshakeStates, is_established
  <2>6. s.nested = 0 \/ s.nested > 0
    BY DEF Sessions
  <2>7. s.nested = 0 => s.state \in {"SendXferAck", "SendXferSegmentsAndAck",
                                     "SendXferSegments", "SendSessTerm", "SendMsgReject"}
    <3>1. s.state \in States
      BY DEF Sessions
    <3> QED
      BY <3>1 DEF States, Waits
  <2> QED
    BY <2>1, <2>2, <2>3, <2>4, <2>5, <2>6, <2>7
<1>3. n.request = s.request
  BY <1>1 DEF Kept
<1>4. /\ SameSender(n, m) /\ SameReceiver(n, m) /\ m.tracker = n.tracker
      /\ m.state = n.state /\ m.terminating = n.terminating
      /\ m.outcome \in {n.outcome, "closed"}
  BY <1>2, <1>3, HeadSame
<1>5. SameSender(s, m) /\ m.tracker = s.tracker /\ m.receiving = s.receiving
      /\ m.passing = s.passing /\ m.outcome \in {s.outcome, "closed"} /\ m.ack = n.ack
  BY <1>1, <1>4 DEF Kept, SameSender, SameReceiver
<1>6. Over(s) => Over(m)
  BY <1>2, <1>4 DEF Over
<1> QED
  BY <1>2, <1>4, <1>5, <1>6 DEF Completed

\* An end whose socket may block has nothing to acknowledge.
LEMMA NarrowNoAck ==
  ASSUME TypeInv, Unblocked, NEW x \in Ends, x \in scenario.narrow, DirectionInv(Peer(x))
  PROVE  session[x].ack = Nothing
<1>0. PICK y \in Ends : y = Peer(x) /\ Peer(y) = x
  BY ScenarioType
<1>1. PICK r \in Nat : TransferInv(session[y], session[x], Pipe(y), Pipe(x),
                                   Received(x), Bundles(y), Queue(y), r)
  BY <1>0, DirectionIs
<1>2. session[y] \in Sessions(Bundles(y)) /\ StateInv(session[y], Bundles(y))
  BY DEF TypeInv, SessionInv
<1>3. Bundles(y) = <<>>
  BY <1>0 DEF Unblocked, Bundles
<1>4. DOMAIN session[y].results = {}
  <2>1. session[y].results \in Results(<<>>)
    BY <1>2, <1>3 DEF Sessions
  <2> QED
    BY <2>1 DEF Results
<1>5. session[y].request = 0
  BY <1>2, <1>4 DEF StateInv
<1> QED
  BY <1>1, <1>5 DEF TransferInv, AcksInv

\* A message is written, or waits for the socket: m is the session afterwards.
Sent(s, m, h, b) ==
  /\ SameSender(s, m) /\ m.receiving = s.receiving /\ m.passing = s.passing
  /\ IF Segment(h) THEN SegmentSent(s, m, h, b) ELSE m.tracker = s.tracker
  /\ IF Acknowledges(h) THEN AckSent(s, m, h) ELSE m.ack = s.ack
  /\ m.outcome \in {s.outcome, "closed"} /\ (Over(s) => Over(m))
  /\ m.state \notin HandshakeStates
  /\ m.state = "SendMsgReject" => s.state = "SendMsgReject" /\ m.terminating = s.terminating

\* What the position of the tracker counts.
LEMMA SegmentSentIs ==
  ASSUME NEW b \in Seq(Nat), NEW s \in Sessions(b), StateInv(s, b),
         s.nested = 0, s.state = "SendXferSegments", s.tracker.pos < s.tracker.len,
         NEW m, SameSender(s, m), m.tracker = [s.tracker EXCEPT !.pos = @ + 1]
  PROVE  SegmentSent(s, m, MessageOf(s), b)
<1>1. /\ s.tracker \in Trackers /\ s.tracker # Nothing /\ s.request # 0
      /\ s.tracker.id = s.last_used_transfer_id - 1 /\ s.tracker.len = b[s.request]
  BY DEF StateInv, Segmenting, Sessions
<1>2. m.tracker \in Trackers /\ m.tracker.pos = s.tracker.pos + 1 /\ s.tracker.pos \in Nat
      /\ s.tracker.len \in Nat /\ s.tracker.id \in Nat /\ s.request \in Nat
  <2>1. PICK t \in Trackers : t = s.tracker
    BY <1>1
  <2>2. PICK v : v = [t EXCEPT !.pos = @ + 1]
    OBVIOUS
  <2>3. v \in Trackers /\ v.pos = t.pos + 1 /\ t.pos \in Nat /\ t.len \in Nat /\ t.id \in Nat
    BY <2>2 DEF Trackers
  <2>4. m.tracker = v
    BY <2>1, <2>2
  <2>5. s.request \in Nat
    BY DEF Sessions
  <2> QED
    BY <2>1, <2>3, <2>4, <2>5
<1>3. m.tracker # Nothing
  BY <1>2, NothingIs
<1>4. PICK h : h = MessageOf(s)
  OBVIOUS
<1>5. h = [type |-> "XferSegment", id |-> s.tracker.id,
           data |-> <<s.request, s.tracker.pos + 1>>,
           end |-> s.tracker.pos + 1 = s.tracker.len]
  BY <1>4, TransferSends
<1>6. /\ h.type = "XferSegment" /\ h.id = s.tracker.id
      /\ h.data = <<s.request, s.tracker.pos + 1>>
      /\ h.end = (s.tracker.pos + 1 = s.tracker.len)
  BY <1>5
<1>7. h.data[1] = s.request /\ h.data[2] = s.tracker.pos + 1
  BY <1>6
<1>8. h \in Messages
  BY <1>1, <1>2, <1>5 DEF Messages
<1>9. SegmentSent(s, m, h, b)
  BY <1>1, <1>2, <1>3, <1>6, <1>7, <1>8 DEF SegmentSent, Segment
<1> QED
  BY <1>4, <1>9

\* What an acknowledgement says.
LEMMA AckSentIs ==
  ASSUME NEW b \in Seq(Nat), NEW s \in Sessions(b), StateInv(s, b),
         s.nested = 0, s.state \in Acking,
         NEW m, m.receiving = s.receiving, m.passing = s.passing, m.ack = Nothing
  PROVE  AckSent(s, m, MessageOf(s))
<1>1. s.ack # Nothing /\ s.ack \in Acks
  BY DEF StateInv, Sessions
<1>2. PICK h : h = MessageOf(s)
  OBVIOUS
<1>3. h = [type |-> "XferAck", id |-> s.ack.id, len |-> s.ack.len]
  BY <1>2, TransferSends DEF Acking
<1>4. h \in Messages /\ h.type = "XferAck" /\ h.id = s.ack.id /\ h.len = s.ack.len
  BY <1>1, <1>3 DEF Messages, Acks
<1>5. ~Over(s)
  BY DEF Over, Acking
<1>6. AckSent(s, m, h)
  BY <1>1, <1>4, <1>5 DEF AckSent, Acknowledges
<1> QED
  BY <1>2, <1>6

\* End x sends h.
LEMMA SentStep ==
  ASSUME TypeInv, Transferring, NEW x \in Ends, Frame(x), NEW h \in Messages,
         Pipe(x)' = Append(Pipe(x), h), Pipe(Peer(x))' = Pipe(Peer(x)),
         Unblocked => Sent(session[x], session'[x], h, Bundles(x))
  PROVE  Transferring'
<1> SUFFICES ASSUME Unblocked, DirectionInv(x), DirectionInv(Peer(x)), RejectInv
             PROVE  DirectionInv(x)' /\ DirectionInv(Peer(x))' /\ RejectInv'
  BY TransferringKeeps DEF Frame
<1>0. Sent(session[x], session'[x], h, Bundles(x))
  OBVIOUS
<1>1. DirectionInv(x)'
  <2>1. CASE Segment(h)
    <3>1. PICK r \in Nat : TransferInv(session[x], session[Peer(x)], Pipe(x), Pipe(Peer(x)),
                                       Received(Peer(x)), Bundles(x), Queue(x), r)
      BY DirectionIs
    <3>2. Pipe(x) \in Seq(Messages) /\ Pipe(Peer(x)) \in Seq(Messages) /\ Peer(x) \in Ends
      BY PipeType, ScenarioType
    <3>3. PICK n : n = session'[x]
      OBVIOUS
    <3>4. SegmentSent(session[x], n, h, Bundles(x))
      BY <1>0, <2>1, <3>3 DEF Sent
    <3>5. PICK p2 : p2 = Append(Pipe(x), h)
      OBVIOUS
    <3>6. TransferInv(n, session[Peer(x)], p2, Pipe(Peer(x)), Received(Peer(x)), Bundles(x),
                      Queue(x), r)
      BY <3>1, <3>2, <3>4, <3>5, SegmentSentKeeps
    <3>7. TransferInv(session'[x], session'[Peer(x)], Pipe(x)', Pipe(Peer(x))',
                      Received(Peer(x))', Bundles(x), Queue(x)', r)
      BY <3>2, <3>3, <3>5, <3>6 DEF Frame
    <3> QED
      BY <3>7, DirectionNext DEF Frame
  <2>2. CASE ~Segment(h)
    <3>1. SenderRests(session[x], session'[x])
      BY <1>0, <2>2 DEF Sent, SenderRests
    <3>2. OtherSegment(Pipe(x), Pipe(x)') /\ Read(Pipe(Peer(x)), Pipe(Peer(x))')
      BY <2>2 DEF OtherSegment, Read
    <3> QED
      BY <3>1, <3>2, SenderStep
  <2> QED
    BY <2>1, <2>2
<1>2. DirectionInv(Peer(x))'
  <2>1. CASE Acknowledges(h)
    <3>0. PICK y \in Ends : y = Peer(x) /\ Peer(y) = x
      BY ScenarioType
    <3>1. PICK r \in Nat : TransferInv(session[y], session[x], Pipe(y), Pipe(x),
                                       Received(x), Bundles(y), Queue(y), r)
      BY <3>0, DirectionIs
    <3>2. Pipe(x) \in Seq(Messages) /\ Pipe(y) \in Seq(Messages)
      BY PipeType
    <3>3. PICK n : n = session'[x]
      OBVIOUS
    <3>4. AckSent(session[x], n, h)
      BY <1>0, <2>1, <3>3 DEF Sent
    <3>5. PICK q2 : q2 = Append(Pipe(x), h)
      OBVIOUS
    <3>6. TransferInv(session[y], n, Pipe(y), q2, Received(x), Bundles(y), Queue(y), r)
      BY <3>1, <3>2, <3>4, <3>5, AckSentKeeps
    <3>7. TransferInv(session'[y], session'[Peer(y)], Pipe(y)', Pipe(Peer(y))',
                      Received(Peer(y))', Bundles(y), Queue(y)', r)
      BY <3>0, <3>3, <3>5, <3>6 DEF Frame
    <3> QED
      BY <3>0, <3>7, DirectionNext DEF Frame
  <2>2. CASE ~Acknowledges(h)
    <3>1. ReceiverRests(session[x], session'[x])
      BY <1>0, <2>2 DEF Sent, ReceiverRests, SameReceiver
    <3>2. OtherAck(Pipe(x), Pipe(x)')
          /\ Skipped(Pipe(Peer(x)), Pipe(Peer(x))', session'[x])
      BY <2>2 DEF OtherAck, Skipped
    <3> QED
      BY <3>1, <3>2, ReceiverStep
  <2> QED
    BY <2>1, <2>2
<1>3. RejectInv'
  <2>1. session'[Peer(x)] = session[Peer(x)]
    BY DEF Frame
  <2>2. session'[x].outcome \in {session[x].outcome, "closed", "failed"}
    BY <1>0 DEF Sent
  <2>3. session'[x].state = "SendMsgReject" => session'[x].terminating
    BY <1>0 DEF Sent, RejectInv
  <2> QED
    BY <2>1, <2>2, <2>3, RejectKeeps
<1> QED
  BY <1>1, <1>2, <1>3

\* What feeding the writer leaves alone.
LEMMA FedSame ==
  ASSUME NEW b \in Seq(Nat), NEW s \in Sessions(b), StateInv(s, b), IsWritable(s),
         NEW f, f = Fed(s)
  PROVE  /\ SameSender(s, f) /\ SameReceiver(s, f) /\ f.state = s.state
         /\ f.nested = s.nested /\ f.terminating = s.terminating /\ f.outcome = s.outcome
         /\ f.buffer = s.buffer
<1>1. PICK v : v = f.tracker
  OBVIOUS
<1>2. f = [s EXCEPT !.tracker = f.tracker]
  BY FedEffect
<1>3. f = [s EXCEPT !.tracker = v]
  BY <1>1, <1>2, Zenon
<1> QED
  BY <1>3 DEF Sessions, SameSender, SameReceiver

\* The socket takes the message.
LEMMA WriteThroughKeeps ==
  ASSUME TypeInv, HandshakeInv, Transferring, NEW x \in Ends, WriteThrough(x)
  PROVE  TypeInv' /\ HandshakeInv' /\ Transferring'
<1>1. /\ TypeInv' /\ Frame(x) /\ IsWritable(session[x])
      /\ Headed(send_complete(Fed(session[x])), session'[x])
      /\ Pipe(x)' = Append(Pipe(x), MessageOf(session[x]))
      /\ Pipe(Peer(x))' = Pipe(Peer(x))
  BY Written
<1>2. PICK b \in Seq(Nat) : b = Bundles(x)
  BY ScenarioType
<1>3. PICK s \in Sessions(b) : s = session[x] /\ StateInv(s, b)
  BY <1>2 DEF TypeInv, SessionInv
<1>4. PICK h \in Messages :
        /\ h = MessageOf(s)
        /\ Segment(h) <=> s.nested = 0 /\ s.state = "SendXferSegments"
        /\ Acknowledges(h) <=> s.nested = 0 /\ s.state \in Acking
        /\ h.type \in HandshakeTypes <=> s.nested = 0 /\ s.state \in HandshakeStates
  BY <1>1, <1>3, MessageType
<1>5. PICK f : f = Fed(s)
  OBVIOUS
<1>6. PICK n : n = send_complete(f)
  OBVIOUS
<1>7. /\ f \in Sessions(b) /\ StateInv(f, b)
      /\ IF s.nested = 0 /\ s.state = "SendXferSegments"
         THEN /\ s.tracker \in Trackers /\ s.tracker.pos < s.tracker.len
              /\ f.tracker = [s.tracker EXCEPT !.pos = @ + 1]
         ELSE f = s
  BY <1>1, <1>3, <1>5, FedEffect
<1>8. /\ SameSender(s, f) /\ SameReceiver(s, f) /\ f.state = s.state
      /\ f.nested = s.nested /\ f.terminating = s.terminating /\ f.outcome = s.outcome
  BY <1>1, <1>3, <1>5, FedSame
<1>9. f.nested > 0 \/ f.state \notin Waits \cup {"ConnectionClose"}
  BY <1>1, <1>3, <1>8 DEF IsWritable, Waits
<1>10. PICK m : m = session'[x]
  OBVIOUS
<1>11. Headed(n, m)
  BY <1>1, <1>3, <1>5, <1>6, <1>10
<1>12. CASE s.state \in HandshakeStates
  <2>1. /\ HandshakeInv' /\ SameSender(s, m) /\ SameReceiver(s, m)
        /\ m.tracker = s.tracker /\ m.state \in Onward
    BY <1>3, <1>10, <1>12, HandshakeWritten
  <2>2. ~Segment(h) /\ ~Acknowledges(h)
    BY <1>4, <1>12 DEF HandshakeStates, Acking
  <2>3. m.outcome \in {s.outcome, "closed"}
    <3>1. Kept(f, n)
      BY <1>6, <1>7, <1>9, CompleteEffect
    <3> QED
      BY <1>8, <1>11, <3>1 DEF Headed, Kept
  <2>4. ~Over(s) /\ m.state # "SendMsgReject"
    BY <1>12, <2>1 DEF Over, HandshakeStates, Onward
  <2>5. SenderRests(s, m) /\ ReceiverRests(s, m)
    BY <2>1, <2>4 DEF SenderRests, ReceiverRests
  <2>6. OtherSegment(Pipe(x), Pipe(x)') /\ OtherAck(Pipe(x), Pipe(x)')
        /\ Skipped(Pipe(Peer(x)), Pipe(Peer(x))', m)
    BY <1>1, <1>3, <1>4, <2>2 DEF OtherSegment, OtherAck, Skipped
  <2>7. Transferring'
    BY <1>1, <1>3, <1>10, <2>3, <2>4, <2>5, <2>6, BothRest
  <2> QED
    BY <1>1, <2>1, <2>7
<1>13. CASE s.state \notin HandshakeStates
  <2>1. Completed(f, m)
    BY <1>6, <1>7, <1>8, <1>9, <1>11, <1>13, CompletedIs
  <2>2. SameSender(s, m) /\ m.receiving = s.receiving /\ m.passing = s.passing
        /\ m.outcome \in {s.outcome, "closed"} /\ (Over(s) => Over(m))
        /\ m.state \notin HandshakeStates
        /\ (m.state = "SendMsgReject" =>
              s.state = "SendMsgReject" /\ m.terminating = s.terminating)
    BY <1>8, <2>1 DEF Completed, SameSender, SameReceiver, Over
  <2>3. IF Segment(h) THEN SegmentSent(s, m, h, b) ELSE m.tracker = s.tracker
    <3>1. CASE Segment(h)
      <4>1. /\ s.nested = 0 /\ s.state = "SendXferSegments" /\ s.tracker.pos < s.tracker.len
            /\ m.tracker = [s.tracker EXCEPT !.pos = @ + 1]
        BY <1>4, <1>7, <2>1, <3>1 DEF Completed
      <4> QED
        BY <1>3, <1>4, <2>2, <3>1, <4>1, SegmentSentIs
    <3>2. CASE ~Segment(h)
      BY <1>4, <1>7, <2>1, <3>2 DEF Completed
    <3> QED
      BY <3>1, <3>2
  <2>4. IF Acknowledges(h) THEN AckSent(s, m, h) ELSE m.ack = s.ack
    <3>1. CASE Acknowledges(h)
      <4>1. s.nested = 0 /\ s.state \in Acking /\ m.ack = Nothing
        BY <1>4, <1>8, <2>1, <3>1 DEF Completed
      <4> QED
        BY <1>3, <1>4, <2>2, <3>1, <4>1, AckSentIs
    <3>2. CASE ~Acknowledges(h)
      BY <1>4, <1>8, <2>1, <3>2 DEF Completed, SameReceiver
    <3> QED
      BY <3>1, <3>2
  <2>5. Sent(s, m, h, b)
    BY <2>2, <2>3, <2>4 DEF Sent
  <2>6. Transferring'
    BY <1>1, <1>2, <1>3, <1>4, <1>10, <2>5, SentStep
  <2>7. Later(Pipe(x), Pipe(x)') /\ Read(Pipe(Peer(x)), Pipe(Peer(x))')
    BY <1>1, <1>3, <1>4, <1>13 DEF Later, Read
  <2>8. HandshakeInv'
    BY <1>1, <1>3, <1>10, <1>13, <2>2, <2>7, LaterKeeps
  <2> QED
    BY <1>1, <2>6, <2>8
<1> QED
  BY <1>12, <1>13

\* The message waits for the socket.
LEMMA WriteBlocksKeeps ==
  ASSUME TypeInv, HandshakeInv, Transferring, NEW x \in Ends, WriteBlocks(x)
  PROVE  TypeInv' /\ HandshakeInv' /\ Transferring'
<1>1. /\ TypeInv' /\ Frame(x) /\ IsWritable(session[x]) /\ x \in scenario.narrow
      /\ session'[x] = [Fed(session[x]) EXCEPT !.flushing = TRUE,
                                               !.buffer = session'[x].buffer]
      /\ Pipe(x)' = Append(Pipe(x), MessageOf(session[x]))
      /\ Pipe(Peer(x))' = Pipe(Peer(x))
      /\ session[x].buffer # <<>> \/ Congested(x)
  BY Buffered
<1>2. PICK b \in Seq(Nat) : b = Bundles(x)
  BY ScenarioType
<1>3. PICK s \in Sessions(b) : s = session[x] /\ StateInv(s, b)
  BY <1>2 DEF TypeInv, SessionInv
<1>4. PICK h \in Messages :
        /\ h = MessageOf(s)
        /\ Segment(h) <=> s.nested = 0 /\ s.state = "SendXferSegments"
        /\ Acknowledges(h) <=> s.nested = 0 /\ s.state \in Acking
        /\ h.type \in HandshakeTypes <=> s.nested = 0 /\ s.state \in HandshakeStates
  BY <1>1, <1>3, MessageType
<1>5. s.state \notin HandshakeStates
  BY <1>1, <1>3, EarlyPipe
<1>6. PICK f : f = Fed(s)
  OBVIOUS
<1>7. /\ f \in Sessions(b)
      /\ IF s.nested = 0 /\ s.state = "SendXferSegments"
         THEN /\ s.tracker \in Trackers /\ s.tracker.pos < s.tracker.len
              /\ f.tracker = [s.tracker EXCEPT !.pos = @ + 1]
         ELSE f = s
  BY <1>1, <1>3, <1>6, FedEffect
<1>8. /\ SameSender(s, f) /\ SameReceiver(s, f) /\ f.state = s.state
      /\ f.nested = s.nested /\ f.terminating = s.terminating /\ f.outcome = s.outcome
  BY <1>1, <1>3, <1>6, FedSame
<1>9. PICK m : m = session'[x]
  OBVIOUS
<1>10. PICK c : c = m.buffer
  OBVIOUS
<1>11. m = [f EXCEPT !.flushing = TRUE, !.buffer = c]
  BY <1>1, <1>3, <1>6, <1>9, <1>10
<1>12. /\ SameSender(f, m) /\ SameReceiver(f, m) /\ m.state = f.state
       /\ m.tracker = f.tracker /\ m.terminating = f.terminating /\ m.outcome = f.outcome
  BY <1>7, <1>11 DEF Sessions, SameSender, SameReceiver
<1>13. ASSUME Unblocked
       PROVE  Sent(s, m, h, b)
  <2>1. DirectionInv(Peer(x))
    BY <1>13, ScenarioType DEF Transferring
  <2>2. s.ack = Nothing
    BY <1>1, <1>3, <1>13, <2>1, NarrowNoAck
  <2>3. ~Acknowledges(h)
    BY <1>3, <1>4, <2>2 DEF StateInv
  <2>4. SameSender(s, m) /\ SameReceiver(s, m) /\ m.state = s.state
        /\ m.terminating = s.terminating /\ m.outcome = s.outcome
    BY <1>8, <1>12 DEF SameSender, SameReceiver
  <2>5. IF Segment(h) THEN SegmentSent(s, m, h, b) ELSE m.tracker = s.tracker
    <3>1. CASE Segment(h)
      <4>1. /\ s.nested = 0 /\ s.state = "SendXferSegments" /\ s.tracker.pos < s.tracker.len
            /\ m.tracker = [s.tracker EXCEPT !.pos = @ + 1]
        BY <1>4, <1>7, <1>12, <3>1
      <4> QED
        BY <1>3, <1>4, <2>4, <3>1, <4>1, SegmentSentIs
    <3>2. CASE ~Segment(h)
      BY <1>4, <1>7, <1>12, <3>2
    <3> QED
      BY <3>1, <3>2
  <2> QED
    BY <1>5, <2>3, <2>4, <2>5 DEF Sent, SameReceiver, Over
<1>14. Transferring'
  BY <1>1, <1>2, <1>3, <1>4, <1>9, <1>13, SentStep
<1>15. Later(Pipe(x), Pipe(x)') /\ Read(Pipe(Peer(x)), Pipe(Peer(x))')
  BY <1>1, <1>3, <1>4, <1>5 DEF Later, Read
<1>16. session'[x].state \notin HandshakeStates
  BY <1>5, <1>8, <1>9, <1>12
<1>17. HandshakeInv'
  BY <1>1, <1>3, <1>5, <1>15, <1>16, LaterKeeps
<1> QED
  BY <1>1, <1>14, <1>17

\* The socket takes a message of the buffer.
LEMMA FlushKeeps ==
  ASSUME TypeInv, HandshakeInv, Transferring, NEW x \in Ends, Flush(x)
  PROVE  TypeInv' /\ HandshakeInv' /\ Transferring'
<1>1. /\ TypeInv' /\ Frame(x) /\ x \in scenario.narrow /\ session[x].buffer # <<>>
      /\ Pipe(x)' = Pipe(x) /\ Pipe(Peer(x))' = Pipe(Peer(x))
  BY Flushed
<1>2. PICK b \in Seq(Nat) : b = Bundles(x)
  BY ScenarioType
<1>3. PICK o \in Sessions(b) : o = session[x] /\ StateInv(o, b)
  BY <1>2 DEF TypeInv, SessionInv
<1>4. PICK m : m = session'[x]
  OBVIOUS
<1>5. PICK s \in Sessions(b) :
        /\ s = [o EXCEPT !.buffer = Tail(@)] /\ StateInv(s, b)
        /\ \/ m = s
           \/ /\ s.nested > 0 \/ s.state \notin Waits \cup {"ConnectionClose"}
              /\ Headed(send_complete(s), m)
  BY <1>2, <1>3, <1>4, Flushed
<1>6. PICK u : u = Tail(o.buffer)
  OBVIOUS
<1>7. s = [o EXCEPT !.buffer = u]
  BY <1>5, <1>6
<1>8. /\ SameSender(o, s) /\ SameReceiver(o, s) /\ s.state = o.state /\ s.nested = o.nested
      /\ s.tracker = o.tracker /\ s.terminating = o.terminating /\ s.outcome = o.outcome
  BY <1>7 DEF Sessions, SameSender, SameReceiver
<1>9. o.state \notin HandshakeStates
  BY <1>1, <1>3 DEF StateInv
<1>10. /\ SameSender(o, m) /\ m.tracker = o.tracker /\ m.receiving = o.receiving
       /\ m.passing = o.passing /\ (o.ack = Nothing => m.ack = o.ack)
       /\ m.state \notin HandshakeStates /\ (Over(o) => Over(m))
       /\ m.outcome \in {o.outcome, "closed"}
       /\ m.state = "SendMsgReject" =>
            o.state = "SendMsgReject" /\ m.terminating = o.terminating
  <2>1. CASE m = s
    BY <1>8, <1>9, <2>1 DEF SameReceiver, Over
  <2>2. CASE /\ s.nested > 0 \/ s.state \notin Waits \cup {"ConnectionClose"}
             /\ Headed(send_complete(s), m)
    <3>1. PICK n : n = send_complete(s)
      OBVIOUS
    <3>2. Completed(s, m)
      BY <1>5, <1>8, <1>9, <2>2, <3>1, CompletedIs
    <3>3. s.ack = Nothing => m.ack = Nothing
      BY <3>2 DEF Completed
    <3>4. SameSender(s, m) /\ m.tracker = s.tracker /\ m.receiving = s.receiving
          /\ m.passing = s.passing /\ m.state \notin HandshakeStates
          /\ (Over(s) => Over(m)) /\ m.outcome \in {s.outcome, "closed"}
          /\ (m.state = "SendMsgReject" =>
                s.state = "SendMsgReject" /\ m.terminating = s.terminating)
      BY <3>2 DEF Completed
    <3> QED
      BY <1>8, <3>3, <3>4 DEF SameSender, SameReceiver, Over
  <2> QED
    BY <1>5, <2>1, <2>2
<1>11. Transferring'
  <2>1. ASSUME Unblocked
        PROVE  SenderRests(o, m) /\ ReceiverRests(o, m)
    <3>1. DirectionInv(Peer(x))
      BY <2>1, ScenarioType DEF Transferring
    <3>2. o.ack = Nothing
      BY <1>1, <1>3, <2>1, <3>1, NarrowNoAck
    <3> QED
      BY <1>10, <3>2 DEF SenderRests, ReceiverRests, SameReceiver
  <2>2. OtherSegment(Pipe(x), Pipe(x)') /\ OtherAck(Pipe(x), Pipe(x)')
        /\ Skipped(Pipe(Peer(x)), Pipe(Peer(x))', session'[x])
    BY <1>1 DEF OtherSegment, OtherAck, Skipped
  <2>3. (RejectInv /\ session'[x].state = "SendMsgReject") => session'[x].terminating
    BY <1>3, <1>4, <1>10 DEF RejectInv
  <2>4. session'[x].outcome \in {session[x].outcome, "closed", "failed"}
    BY <1>3, <1>4, <1>10
  <2> QED
    BY <1>1, <1>3, <1>4, <2>1, <2>2, <2>3, <2>4, BothRest
<1>12. HandshakeInv'
  <2>1. Later(Pipe(x), Pipe(x)') /\ Read(Pipe(Peer(x)), Pipe(Peer(x))')
    BY <1>1 DEF Later, Read
  <2> QED
    BY <1>1, <1>3, <1>4, <1>9, <1>10, <2>1, LaterKeeps
<1> QED
  BY <1>1, <1>11, <1>12

-------------------------------------------------------------------------------
(* Reading *)

\* What holds when a message is read after the handshake.
LEMMA ReadLater ==
  ASSUME TypeInv, HandshakeInv, NEW x \in Ends, NEW T, Reads(x, T),
         T \cap HandshakeTypes = {}
  PROVE  /\ session[x].state \in {"SessionEstablished", "WaitSessTerm", "SendXferSegments"}
         /\ session[x].nested = 0 /\ session[x].ack = Nothing
         /\ session[x].passing = Nothing
<1>1. /\ session[x] \in Sessions(Bundles(x)) /\ StateInv(session[x], Bundles(x))
      /\ IsReadable(session[x]) /\ session[x].passing = Nothing
      /\ Pipe(Peer(x)) # <<>> /\ Pipe(Peer(x)) \in Seq(Messages)
      /\ Head(Pipe(Peer(x))).type \in T
  BY ReadIs
<1>2. session[x].state \notin HandshakeStates
  BY <1>1, HandshakeRead
<1>3. /\ session[x].ack = Nothing /\ session[x].nested = 0
      /\ session[x].state \in Waits \cup {"SendXferSegments"}
  BY <1>1, ReadableIs
<1> QED
  BY <1>1, <1>2, <1>3 DEF Waits, HandshakeStates

\* A message other than a segment is read, or one while the session ends.
LEMMA ReadRests ==
  ASSUME TypeInv, HandshakeInv, Transferring, NEW x \in Ends, NEW T, Reads(x, T),
         T \cap HandshakeTypes = {},
         Frame(x), ReadBy(x), SameReceiver(session[x], session'[x]),
         Unblocked => SenderRests(session[x], session'[x]),
         session'[x].state \notin HandshakeStates, Over(session[x]) => Over(session'[x]),
         ~Segment(Head(Pipe(Peer(x)))) \/ Over(session'[x]),
         session'[x].outcome \in {session[x].outcome, "closed", "failed"},
         (Unblocked /\ RejectInv /\ session'[x].state = "SendMsgReject") =>
           session'[x].terminating
  PROVE  HandshakeInv' /\ Transferring'
<1>1. Pipe(Peer(x)) # <<>> /\ Pipe(Peer(x))' = Tail(Pipe(Peer(x))) /\ Pipe(x)' = Pipe(x)
  BY ReadIs DEF ReadBy
<1>2. session[x].state \notin HandshakeStates
  BY ReadLater DEF HandshakeStates
<1>3. HandshakeInv'
  <2>1. Later(Pipe(x), Pipe(x)') /\ Read(Pipe(Peer(x)), Pipe(Peer(x))')
    BY <1>1 DEF Later, Read
  <2> QED
    BY <1>2, <2>1, LaterKeeps
<1>4. OtherSegment(Pipe(x), Pipe(x)') /\ OtherAck(Pipe(x), Pipe(x)')
  BY <1>1 DEF OtherSegment, OtherAck
<1>5. Skipped(Pipe(Peer(x)), Pipe(Peer(x))', session'[x])
  BY <1>1 DEF Skipped
<1>6. ReceiverRests(session[x], session'[x])
  BY DEF ReceiverRests
<1>7. Transferring'
  BY <1>4, <1>5, <1>6, BothRest
<1> QED
  BY <1>3, <1>7

\* The handshake goes on.
LEMMA ReadHandshakeKeeps ==
  ASSUME TypeInv, HandshakeInv, Transferring, NEW x \in Ends, ReadHandshake(x)
  PROVE  TypeInv' /\ HandshakeInv' /\ Transferring'
<1>1. /\ TypeInv' /\ HandshakeInv' /\ Frame(x) /\ ReadBy(x)
      /\ SameSender(session[x], session'[x]) /\ SameReceiver(session[x], session'[x])
      /\ session'[x].tracker = session[x].tracker
      /\ session[x].state \in HandshakeStates /\ session'[x].state \in Onward
      /\ session'[x].outcome = session[x].outcome
      /\ Pipe(Peer(x)) # <<>> /\ Head(Pipe(Peer(x))).type \in HandshakeTypes
  BY HandshakeTaken
<1>2. OtherSegment(Pipe(x), Pipe(x)') /\ OtherAck(Pipe(x), Pipe(x)')
  BY <1>1 DEF OtherSegment, OtherAck, ReadBy
<1>3. Skipped(Pipe(Peer(x)), Pipe(Peer(x))', session'[x])
  <2>1. ~Segment(Head(Pipe(Peer(x))))
    BY <1>1 DEF Segment, HandshakeTypes
  <2> QED
    BY <1>1, <2>1 DEF Skipped, ReadBy
<1>4. SenderRests(session[x], session'[x]) /\ ReceiverRests(session[x], session'[x])
  BY <1>1 DEF SenderRests, ReceiverRests, Over, HandshakeStates
<1>5. session'[x].state # "SendMsgReject"
  BY <1>1 DEF Onward, HandshakeStates
<1>6. Transferring'
  BY <1>1, <1>2, <1>3, <1>4, <1>5, BothRest
<1> QED
  BY <1>1, <1>6

\* A keepalive of the peer.
LEMMA ReadKeepaliveKeeps ==
  ASSUME TypeInv, HandshakeInv, Transferring, NEW x \in Ends, ReadKeepalive(x)
  PROVE  TypeInv' /\ HandshakeInv' /\ Transferring'
<1>0. Reads(x, {"Keepalive"}) /\ {"Keepalive"} \cap HandshakeTypes = {}
  BY DEF ReadKeepalive, HandshakeTypes
<1>1. PICK T : T = {"Keepalive"}
  OBVIOUS
<1>2. Reads(x, T) /\ T \cap HandshakeTypes = {}
  BY <1>0, <1>1
<1>3. PICK b \in Seq(Nat) : b = Bundles(x)
  BY ScenarioType
<1>4. PICK s \in Sessions(b) : s = session[x] /\ StateInv(s, b)
  BY <1>3 DEF TypeInv, SessionInv
<1>5. PICK n : n = [s EXCEPT !.quiet = 0] /\ Turn(x, n)
  BY <1>4 DEF ReadKeepalive
<1>6. /\ n \in Sessions(b) /\ Prepared(n, b)
      /\ SameSender(s, n) /\ SameReceiver(s, n) /\ SameLoop(s, n)
      /\ n.state = s.state /\ n.tracker = s.tracker /\ n.terminating = s.terminating
  <2>1. n = [s EXCEPT !.quiet = 0]
    BY <1>5
  <2> QED
    BY <1>4, <2>1, KeepaliveEffect
<1>7. TypeInv' /\ Frame(x) /\ Headed(n, session'[x]) /\ ReadBy(x)
  <2>1. Turn(x, n)
    BY <1>5
  <2> QED
    BY <1>2, <1>3, <1>4, <1>6, <2>1, ReadTurn
<1>8. is_established(n) => n.request = 0
  BY <1>4, <1>6 DEF is_established, StateInv, SameSender
<1>9. PICK m : m = session'[x]
  OBVIOUS
<1>10. /\ SameSender(n, m) /\ SameReceiver(n, m) /\ m.tracker = n.tracker
       /\ m.state = n.state /\ m.terminating = n.terminating
       /\ m.outcome \in {n.outcome, "closed"}
  BY <1>7, <1>8, <1>9, HeadSame
<1>11. /\ SenderRests(s, m) /\ SameReceiver(s, m) /\ m.state = s.state
       /\ m.terminating = s.terminating /\ m.outcome \in {s.outcome, "closed"}
  BY <1>6, <1>10 DEF SenderRests, SameSender, SameReceiver, SameLoop
<1>12. s.state \notin HandshakeStates
  BY <1>2, <1>4, ReadLater DEF HandshakeStates
<1>13. ~Segment(Head(Pipe(Peer(x))))
  BY <1>1, <1>2, ReadIs DEF Segment
<1>14. RejectInv /\ m.state = "SendMsgReject" => m.terminating
  BY <1>4, <1>11 DEF RejectInv
<1>15. HandshakeInv' /\ Transferring'
  <2>1. /\ SenderRests(session[x], session'[x]) /\ SameReceiver(session[x], session'[x])
        /\ session'[x].state \notin HandshakeStates
        /\ (Over(session[x]) => Over(session'[x]))
        /\ session'[x].outcome \in {session[x].outcome, "closed", "failed"}
        /\ (RejectInv /\ session'[x].state = "SendMsgReject" => session'[x].terminating)
    BY <1>4, <1>9, <1>11, <1>12, <1>14 DEF Over
  <2> QED
    BY <1>2, <1>7, <1>13, <2>1, ReadRests
<1> QED
  BY <1>7, <1>15

\* The loop ends after a message was read.
LEMMA ReadFinishes ==
  ASSUME TypeInv, HandshakeInv, Transferring, NEW x \in Ends, NEW T, Reads(x, T),
         T \cap {"ContactHeader", "SessInit", "XferSegment"} = {},
         NEW o \in {"failed", "panicked"}, Finish(x, o), Unblocked => o # "panicked"
  PROVE  TypeInv' /\ HandshakeInv' /\ Transferring'
<1>1. /\ ChannelsInv' /\ UNCHANGED <<scenario, agent, send, receive, stored>>
      /\ session'[Peer(x)] = session[Peer(x)] => Pipe(Peer(x))' = Tail(Pipe(Peer(x)))
      /\ session'[x].buffer = session[x].buffer => Pipe(x)' = Pipe(x)
      /\ Head(Pipe(Peer(x))).type \in T
  BY ReadIs
<1>2. /\ TypeInv' /\ Frame(x)
      /\ SameSender(session[x], session'[x]) /\ SameReceiver(session[x], session'[x])
      /\ session'[x].state = session[x].state /\ session'[x].buffer = session[x].buffer
      /\ session'[x].tracker = session[x].tracker
      /\ session'[x].terminating = session[x].terminating
      /\ session'[x].outcome = o
  BY <1>1, Finished
<1>3. ReadBy(x)
  BY <1>1, <1>2 DEF Frame, ReadBy
<1>4. T \cap HandshakeTypes = {} /\ ~Segment(Head(Pipe(Peer(x))))
  BY <1>1 DEF HandshakeTypes, Segment
<1>5. session[x].state \notin HandshakeStates /\ Pipe(Peer(x)) # <<>>
  BY <1>4, ReadLater, ReadIs DEF HandshakeStates
<1>6. HandshakeInv'
  <2>1. Later(Pipe(x), Pipe(x)') /\ Read(Pipe(Peer(x)), Pipe(Peer(x))')
    BY <1>3, <1>5 DEF Later, Read, ReadBy
  <2> QED
    BY <1>2, <1>5, <2>1, LaterKeeps
<1>7. Transferring'
  <2>1. OtherSegment(Pipe(x), Pipe(x)') /\ OtherAck(Pipe(x), Pipe(x)')
        /\ Skipped(Pipe(Peer(x)), Pipe(Peer(x))', session'[x])
    BY <1>3, <1>4, <1>5 DEF OtherSegment, OtherAck, Skipped, ReadBy
  <2>2. SenderRests(session[x], session'[x]) /\ ReceiverRests(session[x], session'[x])
    BY <1>2 DEF SenderRests, ReceiverRests, Over
  <2>3. CASE o = "failed"
    <3>1. (RejectInv /\ session'[x].state = "SendMsgReject") => session'[x].terminating
      BY <1>2 DEF RejectInv
    <3> QED
      BY <1>2, <2>1, <2>2, <2>3, <3>1, BothRest
  <2>4. CASE ~Unblocked
    <3>1. ~Unblocked'
      BY <1>1, <2>4 DEF Unblocked
    <3> QED
      BY <3>1 DEF Transferring
  <2> QED
    BY <2>3, <2>4
<1> QED
  BY <1>2, <1>6, <1>7

\* A SessTerm or a MsgReject of the peer.
LEMMA ReadTermKeeps ==
  ASSUME TypeInv, HandshakeInv, Transferring, NEW x \in Ends, ReadTerm(x)
  PROVE  TypeInv' /\ HandshakeInv' /\ Transferring'
<1>1. PICK T : T = {"SessTerm", "MsgReject"}
  OBVIOUS
<1>2. Reads(x, T) /\ T \cap HandshakeTypes = {}
      /\ T \cap {"ContactHeader", "SessInit", "XferSegment"} = {}
  BY <1>1 DEF ReadTerm, HandshakeTypes
<1>3. CASE Finish(x, "failed")
  <2>1. PICK o \in {"failed", "panicked"} : o = "failed" /\ Finish(x, o)
    BY <1>3
  <2> QED
    BY <1>2, <2>1, ReadFinishes
<1>4. CASE Turn(x, TakeTerm(session[x]))
  <2>3. PICK b \in Seq(Nat) : b = Bundles(x)
    BY ScenarioType
  <2>4. PICK s \in Sessions(b) : s = session[x] /\ StateInv(s, b)
    BY <2>3 DEF TypeInv, SessionInv
  <2>5. PICK n : n = TakeTerm(s)
    OBVIOUS
  <2>6. IsReadable(s) /\ s.passing = Nothing
    BY <1>2, <2>4, ReadIs
  <2>7. /\ n \in Sessions(b) /\ Prepared(n, b)
        /\ SameSender(s, n) /\ SameReceiver(s, n) /\ SameLoop(s, n)
        /\ Over(n) /\ n.tracker = Nothing
        /\ n.state = "SendMsgReject" => s.state \in HandshakeStates
    BY <2>4, <2>5, <2>6, TermEffect
  <2>8. TypeInv' /\ Frame(x) /\ Headed(n, session'[x]) /\ ReadBy(x)
    <3>1. Turn(x, n)
      BY <1>4, <2>4, <2>5
    <3> QED
      BY <1>2, <2>3, <2>4, <2>7, <3>1, ReadTurn
  <2>9. is_established(n) => n.request = 0
    BY <2>7 DEF is_established, Over
  <2>10. PICK m : m = session'[x]
    OBVIOUS
  <2>11. /\ SameSender(n, m) /\ SameReceiver(n, m) /\ m.tracker = n.tracker
         /\ m.state = n.state /\ m.terminating = n.terminating
         /\ m.outcome \in {n.outcome, "closed"}
    BY <2>8, <2>9, <2>10, HeadSame
  <2>12. /\ SenderRests(s, m) /\ SameReceiver(s, m)
         /\ m.outcome \in {s.outcome, "closed"} /\ Over(m)
    BY <2>7, <2>11 DEF SenderRests, SameSender, SameReceiver, SameLoop, Over
  <2>13. s.state \notin HandshakeStates
    BY <1>2, <2>4, ReadLater DEF HandshakeStates
  <2>14. /\ SenderRests(session[x], session'[x]) /\ SameReceiver(session[x], session'[x])
         /\ session'[x].state \notin HandshakeStates /\ Over(session'[x])
         /\ session'[x].outcome \in {session[x].outcome, "closed", "failed"}
         /\ session'[x].state # "SendMsgReject"
    <3>1. m.state \notin HandshakeStates
      BY <2>12 DEF Over, HandshakeStates
    <3> QED
      BY <2>4, <2>7, <2>10, <2>11, <2>12, <2>13, <3>1
  <2>15. HandshakeInv' /\ Transferring'
    BY <1>2, <2>8, <2>14, ReadRests
  <2> QED
    BY <2>8, <2>15
<1> QED
  BY <1>3, <1>4 DEF ReadTerm

\* The loop ends by itself.
LEMMA FinishKeeps ==
  ASSUME TypeInv, HandshakeInv, Transferring, NEW x \in Ends,
         NEW o \in {"closed", "failed"}, Finish(x, o),
         UNCHANGED <<scenario, agent, send, receive, wire, stored>>
  PROVE  TypeInv' /\ HandshakeInv' /\ Transferring'
<1>1. ChannelsInv' /\ UNCHANGED <<scenario, agent, send, receive, stored>>
  BY DEF TypeInv, ChannelsInv
<1>2. /\ TypeInv' /\ Frame(x)
      /\ SameSender(session[x], session'[x]) /\ SameReceiver(session[x], session'[x])
      /\ session'[x].state = session[x].state /\ session'[x].buffer = session[x].buffer
      /\ session'[x].tracker = session[x].tracker
      /\ session'[x].terminating = session[x].terminating
      /\ session'[x].outcome = o
  BY <1>1, Finished
<1>3. Pipe(x)' = Pipe(x) /\ Pipe(Peer(x))' = Pipe(Peer(x))
  BY <1>2 DEF Pipe, Frame
<1>4. HandshakeInv'
  BY <1>2, <1>3, StillKeeps
<1>5. Transferring'
  <2>1. OtherSegment(Pipe(x), Pipe(x)') /\ OtherAck(Pipe(x), Pipe(x)')
        /\ Skipped(Pipe(Peer(x)), Pipe(Peer(x))', session'[x])
    BY <1>3 DEF OtherSegment, OtherAck, Skipped
  <2>2. SenderRests(session[x], session'[x]) /\ ReceiverRests(session[x], session'[x])
    BY <1>2 DEF SenderRests, ReceiverRests, Over
  <2>3. (RejectInv /\ session'[x].state = "SendMsgReject") => session'[x].terminating
    BY <1>2 DEF RejectInv
  <2> QED
    BY <1>2, <2>1, <2>2, <2>3, BothRest
<1> QED
  BY <1>2, <1>4, <1>5

\* What the request and the tracker of an end are.
LEMMA RequestIs ==
  ASSUME TypeInv, NEW y \in Ends
  PROVE  /\ session[y].request # 0 => /\ session[y].request \in 1..Len(Bundles(y))
                                      /\ Bundles(y)[session[y].request] \in Nat \ {0}
         /\ session[y].tracker # Nothing => session[y].tracker.pos \in Nat
         /\ session[y].passing # Nothing => session[y].ack # Nothing
         /\ session[y].passing \in Transfers \cup {Nothing}
<1>1. PICK b \in Seq(Nat \ {0}) : b = Bundles(y)
  BY ScenarioType
<1>2. PICK s \in Sessions(b) : s = session[y] /\ StateInv(s, b)
  BY <1>1 DEF TypeInv, SessionInv
<1>3. s.request # 0 => s.request \in 1..Len(b) /\ b[s.request] \in Nat \ {0}
  <2>1. DOMAIN s.results = 1..Len(b)
    BY DEF Sessions, Results
  <2> QED
    BY <1>2, <2>1 DEF StateInv
<1>4. s.tracker # Nothing => s.tracker.pos \in Nat
  BY DEF Sessions, Trackers
<1>5. (s.passing # Nothing => s.ack # Nothing) /\ s.passing \in Transfers \cup {Nothing}
  BY <1>2 DEF StateInv, Sessions
<1> QED
  BY <1>1, <1>2, <1>3, <1>4, <1>5

\* A segment, or an acknowledgement, that is read too late is rejected.
LEMMA RejectTurn ==
  ASSUME TypeInv, HandshakeInv, Transferring, NEW x \in Ends, NEW T, Reads(x, T),
         T \cap HandshakeTypes = {}, Turn(x, Reject(session[x])),
         Unblocked => session[x].state = "WaitSessTerm"
  PROVE  TypeInv' /\ HandshakeInv' /\ Transferring'
<1>1. PICK b \in Seq(Nat) : b = Bundles(x)
  BY ScenarioType
<1>2. PICK s \in Sessions(b) : s = session[x] /\ StateInv(s, b)
  BY <1>1 DEF TypeInv, SessionInv
<1>3. PICK n : n = Reject(s)
  OBVIOUS
<1>4. IsReadable(s) /\ s.passing = Nothing
  BY <1>2, ReadIs
<1>5. /\ n \in Sessions(b) /\ Prepared(n, b)
      /\ SameSender(s, n) /\ SameReceiver(s, n) /\ SameLoop(s, n)
      /\ n.state = "SendMsgReject" /\ n.tracker = Nothing
      /\ n.terminating = s.terminating
  BY <1>2, <1>3, <1>4, RejectEffect
<1>6. TypeInv' /\ Frame(x) /\ Headed(n, session'[x]) /\ ReadBy(x)
  <2>1. Turn(x, n)
    BY <1>2, <1>3
  <2> QED
    BY <1>1, <1>2, <1>5, <2>1, ReadTurn
<1>7. is_established(n) => n.request = 0
  BY <1>5 DEF is_established
<1>8. PICK m : m = session'[x]
  OBVIOUS
<1>9. /\ SameSender(n, m) /\ SameReceiver(n, m) /\ m.tracker = n.tracker
      /\ m.state = n.state /\ m.terminating = n.terminating
      /\ m.outcome \in {n.outcome, "closed"}
  BY <1>6, <1>7, <1>8, HeadSame
<1>10. /\ SenderRests(s, m) /\ SameReceiver(s, m) /\ Over(m) /\ m.state = "SendMsgReject"
       /\ m.outcome \in {s.outcome, "closed"} /\ m.terminating = s.terminating
  BY <1>5, <1>9 DEF SenderRests, SameSender, SameReceiver, SameLoop, Over
<1>11. Unblocked => m.terminating
  BY <1>2, <1>10 DEF StateInv
<1>12. /\ SenderRests(session[x], session'[x]) /\ SameReceiver(session[x], session'[x])
       /\ session'[x].state \notin HandshakeStates /\ Over(session'[x])
       /\ session'[x].outcome \in {session[x].outcome, "closed", "failed"}
       /\ (Unblocked => session'[x].terminating)
  BY <1>2, <1>8, <1>10, <1>11 DEF HandshakeStates
<1>13. HandshakeInv' /\ Transferring'
  BY <1>6, <1>12, ReadRests
<1> QED
  BY <1>6, <1>13

\* A segment h of the peer was taken.
LEMMA SegmentStep ==
  ASSUME TypeInv, HandshakeInv, Transferring, NEW x \in Ends, Frame(x), ReadBy(x),
         NEW h, h = Head(Pipe(Peer(x))), Pipe(Peer(x)) # <<>>, Segment(h),
         session[x].state \in {"SessionEstablished", "SendXferSegments"},
         session[x].ack = Nothing, session[x].passing = Nothing,
         SameSender(session[x], session'[x]), session'[x].tracker = session[x].tracker,
         session'[x].state \notin HandshakeStates \cup {"SendMsgReject"},
         session'[x].outcome \in {session[x].outcome, "closed"},
         SegmentTaken(session[x], session'[x], h, Len(Joined(session[x], h).data), h.end)
  PROVE  HandshakeInv' /\ Transferring'
<1>1. HandshakeInv'
  <2>1. Later(Pipe(x), Pipe(x)') /\ Read(Pipe(Peer(x)), Pipe(Peer(x))')
    BY DEF Later, Read, ReadBy
  <2>2. session[x].state \notin HandshakeStates
    BY DEF HandshakeStates
  <2> QED
    BY <2>1, <2>2, LaterKeeps
<1>2. ASSUME Unblocked, DirectionInv(x), DirectionInv(Peer(x)), RejectInv
      PROVE  DirectionInv(x)' /\ DirectionInv(Peer(x))' /\ RejectInv'
  <2>1. DirectionInv(x)'
    <3>1. SenderRests(session[x], session'[x])
      BY DEF SenderRests
    <3>2. OtherSegment(Pipe(x), Pipe(x)') /\ Read(Pipe(Peer(x)), Pipe(Peer(x))')
      BY DEF OtherSegment, Read, ReadBy
    <3> QED
      BY <1>2, <3>1, <3>2, SenderStep
  <2>2. RejectInv'
    <3>1. session'[Peer(x)] = session[Peer(x)]
      BY DEF Frame
    <3> QED
      BY <1>2, <3>1, RejectKeeps
  <2>3. DirectionInv(Peer(x))'
    <3>0. PICK y \in Ends : y = Peer(x) /\ Peer(y) = x
      BY ScenarioType
    <3>1. PICK r \in Nat : TransferInv(session[y], session[x], Pipe(y), Pipe(x),
                                       Received(x), Bundles(y), Queue(y), r)
      BY <1>2, <3>0, DirectionIs
    <3>2. PICK t : t = session[x]
      OBVIOUS
    <3>3. PICK p \in Seq(Messages) : p = Pipe(y)
      BY PipeType
    <3>4. PICK q \in Seq(Messages) : q = Pipe(x)
      BY PipeType
    <3>5. PICK s : s = session[y]
      OBVIOUS
    <3>6. PICK b : b = Bundles(y)
      OBVIOUS
    <3>7. PICK g : g = Received(x)
      OBVIOUS
    <3>8. PICK w : w = Queue(y)
      OBVIOUS
    <3>9. PICK n : n = session'[x]
      OBVIOUS
    <3>10. TransferInv(s, t, p, q, g, b, w, r)
      BY <3>1, <3>2, <3>3, <3>4, <3>5, <3>6, <3>7, <3>8
    <3>11. (s.request # 0 => b[s.request] \in Nat)
           /\ (s.tracker # Nothing => s.tracker.pos \in Nat)
      BY <3>5, <3>6, RequestIs
    <3>12. /\ h = Head(p) /\ p # <<>> /\ Segment(Head(p)) /\ t.passing = Nothing
           /\ t.ack = Nothing /\ ~Over(t)
      BY <3>0, <3>2, <3>3 DEF Over
    <3>13. Expected(s, t, h, b, r)
      BY <3>10, <3>11, <3>12, SegmentExpected
    <3>14. Len(Joined(t, h).data) = r + 1
      <4>1. s.request \in Nat /\ Joined(t, h).data = Units(s.request, r + 1)
        BY <3>13 DEF Expected
      <4>2. r + 1 \in Nat
        OBVIOUS
      <4>3. Len(Units(s.request, r + 1)) = r + 1
        BY <4>1, <4>2, UnitsAre
      <4> QED
        BY <4>1, <4>3
    <3>15. SegmentTaken(t, n, h, r + 1, h.end)
      BY <3>2, <3>9, <3>14
    <3>16. PICK p2 : p2 = Tail(p)
      OBVIOUS
    <3>17. TransferInv(s, n, p2, q, g, b, w, r + 1)
      BY <3>10, <3>11, <3>12, <3>15, <3>16, SegmentTakenKeeps
    <3>18. TransferInv(session'[y], session'[Peer(y)], Pipe(y)', Pipe(Peer(y))',
                       Received(Peer(y))', Bundles(y), Queue(y)', r + 1)
      <4>1. /\ session'[y] = s /\ session'[Peer(y)] = n /\ Pipe(y)' = p2
            /\ Pipe(Peer(y))' = q /\ Received(Peer(y))' = g /\ Bundles(y) = b
            /\ Queue(y)' = w
        BY <3>0, <3>3, <3>4, <3>5, <3>6, <3>7, <3>8, <3>9, <3>16 DEF Frame, ReadBy
      <4> QED
        BY <3>17, <4>1
    <3>19. r + 1 \in Nat
      OBVIOUS
    <3> QED
      BY <3>0, <3>18, <3>19, DirectionNext DEF Frame
  <2> QED
    BY <2>1, <2>2, <2>3
<1> QED
  BY <1>1, <1>2, TransferringKeeps DEF Frame

\* A segment the session cannot use would be ignored; but the transfers of the
\* peer come one after the other.
LEMMA SegmentUsed ==
  ASSUME TypeInv, Unblocked, NEW x \in Ends, DirectionInv(Peer(x)),
         NEW h, h = Head(Pipe(Peer(x))), Pipe(Peer(x)) # <<>>, Segment(h),
         session[x].state \in {"SessionEstablished", "SendXferSegments"},
         session[x].passing = Nothing
  PROVE  Joined(session[x], h).id = h.id
<1>0. PICK y \in Ends : y = Peer(x) /\ Peer(y) = x
  BY ScenarioType
<1>1. PICK r \in Nat : TransferInv(session[y], session[x], Pipe(y), Pipe(x),
                                   Received(x), Bundles(y), Queue(y), r)
  BY <1>0, DirectionIs
<1>2. session[y].request # 0 => Bundles(y)[session[y].request] \in Nat
  BY RequestIs
<1>3. Pipe(y) \in Seq(Messages) /\ h = Head(Pipe(y)) /\ Pipe(y) # <<>>
      /\ Segment(Head(Pipe(y))) /\ ~Over(session[x])
  BY <1>0, PipeType DEF Over
<1>4. Expected(session[y], session[x], h, Bundles(y), r)
  BY <1>1, <1>2, <1>3, SegmentExpected
<1> QED
  BY <1>4 DEF Expected

\* The session after the segment h, which makes t of what was received.
SegmentResult(s, n, h, t, ack) ==
  /\ ack = [id |-> h.id, len |-> Len(t.data)]
  /\ n = IF h.end THEN [s EXCEPT !.receiving = Nothing, !.ack = ack, !.passing = t]
         ELSE send_ack([s EXCEPT !.receiving = t], ack)

\* What a segment makes of the session when it is taken.
LEMMA SegmentEffect ==
  ASSUME NEW b \in Seq(Nat), NEW s \in Sessions(b), StateInv(s, b), s.nested = 0,
         s.state \in {"SessionEstablished", "SendXferSegments"}, s.passing = Nothing,
         NEW h \in Messages, Segment(h), NEW t, t = Joined(s, h), t.id = h.id,
         NEW ack, NEW n, SegmentResult(s, n, h, t, ack)
  PROVE  /\ n \in Sessions(b) /\ Prepared(n, b) /\ SameSender(s, n) /\ SameLoop(s, n)
         /\ n.tracker = s.tracker /\ n.state \notin HandshakeStates \cup {"SendMsgReject"}
         /\ is_established(n) => n.request = 0
         /\ SegmentTaken(s, n, h, Len(t.data), h.end)
<1>1. h.id \in Nat /\ h.data \in Nat \X Nat /\ h.end \in BOOLEAN
  BY MessageFields
<1>2. t \in Transfers
  <2>1. CASE s.receiving = Nothing
    <3>1. t = [id |-> h.id, data |-> <<h.data>>]
      BY <2>1 DEF Joined
    <3>2. <<h.data>> \in Seq(Nat \X Nat)
      BY <1>1
    <3> QED
      BY <1>1, <3>1, <3>2 DEF Transfers
  <2>2. CASE s.receiving # Nothing
    <3>1. s.receiving \in Transfers
      BY <2>2 DEF Sessions
    <3>2. t = [id |-> s.receiving.id, data |-> Append(s.receiving.data, h.data)]
      BY <2>2 DEF Joined
    <3>3. s.receiving.id \in Nat /\ s.receiving.data \in Seq(Nat \X Nat)
      BY <3>1 DEF Transfers
    <3>4. Append(s.receiving.data, h.data) \in Seq(Nat \X Nat)
      BY <1>1, <3>3
    <3> QED
      BY <3>2, <3>3, <3>4 DEF Transfers
  <2> QED
    BY <2>1, <2>2
<1>3. t # Nothing /\ Len(t.data) \in Nat
  BY <1>2, NothingIs DEF Transfers
<1>4. ack \in Acks /\ ack # Nothing /\ ack.id = h.id /\ ack.len = Len(t.data)
  BY <1>1, <1>3, NothingIs DEF Acks, SegmentResult
<1>5. ~Over(s)
  BY DEF Over
<1>6. s.state = "SessionEstablished" => s.request = 0
  BY DEF StateInv
<1>7. CASE h.end
  <2>1. Passes(s, n, t, ack)
    BY <1>7 DEF SegmentResult, Passes
  <2>2. /\ n \in Sessions(b) /\ Prepared(n, b) /\ SameSender(s, n) /\ SameLoop(s, n)
        /\ n.receiving = Nothing /\ n.passing = t /\ n.ack = ack
        /\ n.tracker = s.tracker /\ n.state = s.state
    BY <1>2, <1>4, <2>1, PassingEffect
  <2>3. SegmentTaken(s, n, h, Len(t.data), h.end)
    BY <1>3, <1>4, <1>5, <1>7, <2>2 DEF SegmentTaken
  <2>4. is_established(n) => n.request = 0
    BY <1>6, <2>2 DEF is_established, SameSender
  <2> QED
    BY <2>2, <2>3, <2>4 DEF HandshakeStates
<1>8. CASE ~h.end
  <2>1. PICK o : o = [s EXCEPT !.receiving = t]
    OBVIOUS
  <2>2. o \in Sessions(b) /\ o.state = s.state /\ o.passing = Nothing
    BY <1>2, <2>1 DEF Sessions
  <2>3. PICK c : c = IF s.state = "SendXferSegments" THEN "SendXferSegmentsAndAck"
                     ELSE "SendXferAck"
    OBVIOUS
  <2>4. n = [o EXCEPT !.ack = ack, !.state = c]
    BY <1>8, <2>1, <2>2, <2>3 DEF send_ack, SegmentResult
  <2>5. n = [s EXCEPT !.receiving = t, !.passing = Nothing, !.ack = ack, !.state = c]
    BY <2>1, <2>4 DEF Sessions
  <2>6. Answers(s, n, t, ack)
    BY <2>3, <2>5, Zenon DEF Answers
  <2>7. /\ n \in Sessions(b) /\ Prepared(n, b) /\ SameSender(s, n) /\ SameLoop(s, n)
        /\ n.receiving = t /\ n.passing = Nothing /\ n.ack = ack
        /\ n.tracker = s.tracker /\ n.state \in Acking
    BY <1>2, <1>4, <2>6, AckGiven
  <2>8. SegmentTaken(s, n, h, Len(t.data), h.end)
    BY <1>3, <1>4, <1>5, <1>8, <2>7 DEF SegmentTaken
  <2> QED
    BY <2>7, <2>8 DEF HandshakeStates, Acking, is_established
<1> QED
  BY <1>7, <1>8

\* A segment of the peer.
LEMMA ReadSegmentKeeps ==
  ASSUME TypeInv, HandshakeInv, Transferring, NEW x \in Ends, ReadSegment(x)
  PROVE  TypeInv' /\ HandshakeInv' /\ Transferring'
<1>1. PICK T : T = {"XferSegment"}
  OBVIOUS
<1>2. Reads(x, T) /\ T \cap HandshakeTypes = {}
  BY <1>1 DEF ReadSegment, HandshakeTypes
<1>3. PICK b \in Seq(Nat) : b = Bundles(x)
  BY ScenarioType
<1>4. PICK s \in Sessions(b) : s = session[x] /\ StateInv(s, b)
  BY <1>3 DEF TypeInv, SessionInv
<1>5. PICK h \in Messages : h = Head(wire[Peer(x)]) /\ h = Head(Pipe(Peer(x))) /\ Segment(h)
                            /\ Pipe(Peer(x)) # <<>>
  BY <1>1, <1>2, ReadIs DEF Segment
<1>6. /\ s.state \in {"SessionEstablished", "WaitSessTerm", "SendXferSegments"}
      /\ s.nested = 0 /\ s.ack = Nothing /\ s.passing = Nothing
  BY <1>2, <1>4, ReadLater
<1>7. PICK t : t = Joined(s, h)
  OBVIOUS
<1>8. PICK ack : ack = [id |-> h.id, len |-> Len(t.data)]
  OBVIOUS
<1>9. Turn(x, IF s.state \notin {"SessionEstablished", "SendXferSegments"} THEN Reject(s)
              ELSE IF t.id # h.id THEN s
              ELSE IF h.end THEN [s EXCEPT !.receiving = Nothing, !.ack = ack, !.passing = t]
              ELSE send_ack([s EXCEPT !.receiving = t], ack))
  BY <1>4, <1>5, <1>7, <1>8 DEF ReadSegment, Joined
<1>10. CASE s.state \notin {"SessionEstablished", "SendXferSegments"}
  <2>1. Turn(x, Reject(s))
    BY <1>9, <1>10
  <2>2. Turn(x, Reject(session[x])) /\ session[x].state = "WaitSessTerm"
    BY <1>4, <1>6, <1>10, <2>1
  <2> QED
    BY <1>2, <2>2, RejectTurn
<1>11. CASE s.state \in {"SessionEstablished", "SendXferSegments"} /\ t.id # h.id
  <2>1. Turn(x, s)
    BY <1>9, <1>11
  <2>2. Prepared(s, b) /\ SameSender(s, s) /\ SameLoop(s, s)
    BY <1>4 DEF Prepared, StateInv, SameSender, SameLoop
  <2>3. TypeInv' /\ Frame(x) /\ Headed(s, session'[x]) /\ ReadBy(x)
    BY <1>2, <1>3, <1>4, <2>1, <2>2, ReadTurn
  <2>4. is_established(s) => s.request = 0
    BY <1>4 DEF is_established, StateInv
  <2>5. PICK m : m = session'[x]
    OBVIOUS
  <2>6. m.state = s.state
    BY <2>3, <2>4, <2>5, HeadSame
  <2>7. HandshakeInv'
    <3>1. Later(Pipe(x), Pipe(x)') /\ Read(Pipe(Peer(x)), Pipe(Peer(x))')
      BY <1>5, <2>3 DEF Later, Read, ReadBy
    <3>2. session[x].state \notin HandshakeStates /\ session'[x].state \notin HandshakeStates
      BY <1>4, <1>11, <2>5, <2>6 DEF HandshakeStates
    <3> QED
      BY <2>3, <3>1, <3>2, LaterKeeps
  <2>8. ~Unblocked
    <3> SUFFICES ASSUME Unblocked PROVE FALSE
      OBVIOUS
    <3>1. DirectionInv(Peer(x))
      BY ScenarioType DEF Transferring
    <3>2. Joined(session[x], h).id = h.id
      BY <1>4, <1>5, <1>6, <1>11, <3>1, SegmentUsed
    <3> QED
      BY <1>4, <1>7, <1>11, <3>2
  <2>9. ~Unblocked'
    BY <2>3, <2>8 DEF Unblocked, Frame
  <2> QED
    BY <2>3, <2>7, <2>9 DEF Transferring
<1>12. CASE s.state \in {"SessionEstablished", "SendXferSegments"} /\ t.id = h.id
  <2>1. PICK n : n = IF h.end
                     THEN [s EXCEPT !.receiving = Nothing, !.ack = ack, !.passing = t]
                     ELSE send_ack([s EXCEPT !.receiving = t], ack)
    OBVIOUS
  <2>2. Turn(x, n)
    BY <1>9, <1>12, <2>1
  <2>3. SegmentResult(s, n, h, t, ack)
    BY <1>8, <2>1 DEF SegmentResult
  <2>4. /\ n \in Sessions(b) /\ Prepared(n, b) /\ SameSender(s, n) /\ SameLoop(s, n)
        /\ n.tracker = s.tracker /\ n.state \notin HandshakeStates \cup {"SendMsgReject"}
        /\ is_established(n) => n.request = 0
        /\ SegmentTaken(s, n, h, Len(t.data), h.end)
    <3>1. h \in Messages /\ Segment(h) /\ StateInv(s, b)
      BY <1>4, <1>5
    <3> QED
      BY <1>6, <1>7, <1>12, <2>3, <3>1, SegmentEffect
  <2>5. TypeInv' /\ Frame(x) /\ Headed(n, session'[x]) /\ ReadBy(x)
    BY <1>2, <1>3, <1>4, <2>2, <2>4, ReadTurn
  <2>6. PICK m : m = session'[x]
    OBVIOUS
  <2>7. /\ SameSender(n, m) /\ SameReceiver(n, m) /\ m.tracker = n.tracker
        /\ m.state = n.state /\ m.terminating = n.terminating
        /\ m.outcome \in {n.outcome, "closed"}
    BY <2>4, <2>5, <2>6, HeadSame
  <2>8. /\ SameSender(s, m) /\ m.tracker = s.tracker
        /\ m.state \notin HandshakeStates \cup {"SendMsgReject"}
        /\ m.outcome \in {s.outcome, "closed"}
    BY <2>4, <2>7 DEF SameSender, SameLoop
  <2>9. SegmentTaken(s, m, h, Len(t.data), h.end)
    BY <2>4, <2>7 DEF SegmentTaken, SameReceiver
  <2>10. HandshakeInv' /\ Transferring'
    <3>1. /\ SameSender(session[x], session'[x]) /\ session'[x].tracker = session[x].tracker
          /\ session'[x].state \notin HandshakeStates \cup {"SendMsgReject"}
          /\ session'[x].outcome \in {session[x].outcome, "closed"}
          /\ SegmentTaken(session[x], session'[x], h, Len(Joined(session[x], h).data), h.end)
      BY <1>4, <1>7, <2>6, <2>8, <2>9
    <3>2. /\ h = Head(Pipe(Peer(x))) /\ Pipe(Peer(x)) # <<>> /\ Segment(h)
          /\ session[x].state \in {"SessionEstablished", "SendXferSegments"}
          /\ session[x].ack = Nothing /\ session[x].passing = Nothing
      BY <1>4, <1>5, <1>6, <1>12
    <3> QED
      BY <2>5, <3>1, <3>2, SegmentStep
  <2> QED
    BY <2>5, <2>10
<1> QED
  BY <1>10, <1>11, <1>12

\* The acknowledgement h of the peer ends the transfer.
LEMMA DoneStep ==
  ASSUME TypeInv, HandshakeInv, Transferring, NEW x \in Ends, Frame(x), ReadBy(x),
         NEW h, h = Head(Pipe(Peer(x))), Pipe(Peer(x)) # <<>>, Acknowledges(h),
         TransferDone(session[x], session'[x], h, Bundles(x)),
         SameReceiver(session[x], session'[x]), session[x].state = "SendXferSegments",
         session'[x].state = "SessionEstablished",
         session'[x].outcome \in {session[x].outcome, "closed"}
  PROVE  HandshakeInv' /\ Transferring'
<1>1. HandshakeInv'
  <2>1. Later(Pipe(x), Pipe(x)') /\ Read(Pipe(Peer(x)), Pipe(Peer(x))')
    BY DEF Later, Read, ReadBy
  <2>2. session[x].state \notin HandshakeStates /\ session'[x].state \notin HandshakeStates
    BY DEF HandshakeStates
  <2> QED
    BY <2>1, <2>2, LaterKeeps
<1>2. ASSUME Unblocked, DirectionInv(x), DirectionInv(Peer(x)), RejectInv
      PROVE  DirectionInv(x)' /\ DirectionInv(Peer(x))' /\ RejectInv'
  <2>1. DirectionInv(Peer(x))'
    <3>1. ReceiverRests(session[x], session'[x])
      BY DEF ReceiverRests, Over
    <3>2. Skipped(Pipe(Peer(x)), Pipe(Peer(x))', session'[x]) /\ OtherAck(Pipe(x), Pipe(x)')
      BY DEF Skipped, OtherAck, ReadBy, Segment, Acknowledges
    <3> QED
      BY <1>2, <3>1, <3>2, ReceiverStep
  <2>2. RejectInv'
    <3>1. session'[Peer(x)] = session[Peer(x)]
      BY DEF Frame
    <3> QED
      BY <1>2, <3>1, RejectKeeps
  <2>3. DirectionInv(x)'
    <3>1. PICK r \in Nat : TransferInv(session[x], session[Peer(x)], Pipe(x), Pipe(Peer(x)),
                                       Received(Peer(x)), Bundles(x), Queue(x), r)
      BY <1>2, DirectionIs
    <3>2. Pipe(x) \in Seq(Messages) /\ Pipe(Peer(x)) \in Seq(Messages) /\ Peer(x) \in Ends
      BY PipeType, ScenarioType
    <3>3. session[Peer(x)].passing # Nothing => session[Peer(x)].ack # Nothing
      BY <3>2, RequestIs
    <3>4. PICK n : n = session'[x]
      OBVIOUS
    <3>5. PICK q2 : q2 = Tail(Pipe(Peer(x)))
      OBVIOUS
    <3>6. TransferDone(session[x], n, Head(Pipe(Peer(x))), Bundles(x))
      BY <3>4
    <3>7. TransferInv(n, session[Peer(x)], Pipe(x), q2, Received(Peer(x)), Bundles(x),
                      Queue(x), 0)
      BY <3>1, <3>2, <3>3, <3>5, <3>6, TransferDoneKeeps
    <3>8. TransferInv(session'[x], session'[Peer(x)], Pipe(x)', Pipe(Peer(x))',
                      Received(Peer(x))', Bundles(x), Queue(x)', 0)
      BY <3>2, <3>4, <3>5, <3>7 DEF Frame, ReadBy
    <3>9. 0 \in Nat
      OBVIOUS
    <3> QED
      BY <3>8, <3>9, DirectionNext DEF Frame
  <2> QED
    BY <2>1, <2>2, <2>3
<1> QED
  BY <1>1, <1>2, TransferringKeeps DEF Frame

\* Acknowledgements are for the current request.
LEMMA AckExpected ==
  ASSUME TypeInv, Unblocked, Transferring, NEW x \in Ends,
         NEW h, h = Head(Pipe(Peer(x))), Pipe(Peer(x)) # <<>>, Acknowledges(h)
  PROVE  session[x].request # 0 /\ h.id = session[x].last_used_transfer_id - 1
<1>1. PICK r \in Nat : TransferInv(session[x], session[Peer(x)], Pipe(x), Pipe(Peer(x)),
                                   Received(Peer(x)), Bundles(x), Queue(x), r)
  BY DirectionIs DEF Transferring
<1>2. PICK q \in Seq(Messages) : q = Pipe(Peer(x))
  BY PipeType, ScenarioType
<1>3. h = q[1] /\ 1 \in 1..Len(q)
  BY <1>2, TailIs
<1>4. AcksInv(session[x], session[Peer(x)], q, r)
  BY <1>1, <1>2 DEF TransferInv
<1> QED
  BY <1>3, <1>4 DEF AcksInv

\* An acknowledgement of the peer.
LEMMA ReadAckKeeps ==
  ASSUME TypeInv, HandshakeInv, Transferring, NEW x \in Ends, ReadAck(x)
  PROVE  TypeInv' /\ HandshakeInv' /\ Transferring'
<1>1. PICK T : T = {"XferAck"}
  OBVIOUS
<1>2. Reads(x, T) /\ T \cap HandshakeTypes = {}
      /\ T \cap {"ContactHeader", "SessInit", "XferSegment"} = {}
  BY <1>1 DEF ReadAck, HandshakeTypes
<1>3. PICK b \in Seq(Nat) : b = Bundles(x)
  BY ScenarioType
<1>4. PICK s \in Sessions(b) : s = session[x] /\ StateInv(s, b)
  BY <1>3 DEF TypeInv, SessionInv
<1>5. PICK h \in Messages : /\ h = Head(wire[Peer(x)]) /\ h = Head(Pipe(Peer(x)))
                            /\ Acknowledges(h) /\ Pipe(Peer(x)) # <<>>
  BY <1>1, <1>2, ReadIs DEF Acknowledges
<1>6. /\ s.state \in {"SessionEstablished", "WaitSessTerm", "SendXferSegments"}
      /\ s.nested = 0 /\ s.ack = Nothing /\ s.passing = Nothing
  BY <1>2, <1>4, ReadLater
<1>7. Unblocked => s.request # 0 /\ h.id = s.last_used_transfer_id - 1
  BY <1>4, <1>5, AckExpected
<1>8. IF s.state # "SendXferSegments" THEN Turn(x, Reject(s))
      ELSE IF s.tracker.id # h.id THEN Finish(x, "panicked")
      ELSE IF h.len > s.tracker.pos THEN Finish(x, "failed")
      ELSE Turn(x, TakeAck(s, h.len))
  BY <1>4, <1>5 DEF ReadAck
<1>9. CASE s.state # "SendXferSegments"
  <2>1. Turn(x, Reject(session[x]))
    BY <1>4, <1>8, <1>9
  <2>2. Unblocked => session[x].state = "WaitSessTerm"
    BY <1>4, <1>6, <1>7, <1>9 DEF StateInv
  <2> QED
    BY <1>2, <2>1, <2>2, RejectTurn
<1>10. CASE s.state = "SendXferSegments" /\ s.tracker.id # h.id
  <2>1. PICK o \in {"failed", "panicked"} : o = "panicked" /\ Finish(x, o)
    BY <1>8, <1>10
  <2>2. ~Unblocked
    BY <1>4, <1>7, <1>10 DEF StateInv, Segmenting
  <2> QED
    BY <1>2, <2>1, <2>2, ReadFinishes
<1>11. CASE s.state = "SendXferSegments" /\ s.tracker.id = h.id /\ h.len > s.tracker.pos
  <2>1. PICK o \in {"failed", "panicked"} : o = "failed" /\ Finish(x, o)
    BY <1>8, <1>11
  <2> QED
    BY <1>2, <2>1, ReadFinishes
<1>12. CASE s.state = "SendXferSegments" /\ s.tracker.id = h.id /\ ~(h.len > s.tracker.pos)
  <2>1. PICK n : n = TakeAck(s, h.len)
    OBVIOUS
  <2>2. Turn(x, n)
    BY <1>8, <1>12, <2>1
  <2>3. s.tracker \in Trackers /\ s.tracker # Nothing /\ s.request # 0
        /\ s.tracker.len = b[s.request]
    BY <1>4, <1>12 DEF StateInv, Segmenting, Sessions
  <2>4. h.len \in Nat /\ h.len <= s.tracker.pos
    <3>1. h.len \in Nat
      BY <1>5, MessageFields
    <3> QED
      BY <1>12, <2>3, <3>1 DEF Trackers
  <2>5. /\ n \in Sessions(b) /\ Prepared(n, b)
        /\ SameSender(s, n) /\ SameReceiver(s, n) /\ SameLoop(s, n)
        /\ IF h.len = s.tracker.len THEN n.state = "SessionEstablished" /\ n.tracker = Nothing
           ELSE /\ n.state = "SendXferSegments" /\ n.tracker # Nothing
                /\ n.tracker.pos = s.tracker.pos
        /\ n.terminating = s.terminating /\ s.tracker \in Trackers
    <3>1. PICK k \in Nat : k = h.len
      BY <2>4
    <3>2. n = TakeAck(s, k) /\ k <= s.tracker.pos
      BY <2>1, <2>4, <3>1
    <3>3. /\ n \in Sessions(b) /\ Prepared(n, b)
          /\ SameSender(s, n) /\ SameReceiver(s, n) /\ SameLoop(s, n)
          /\ IF k = s.tracker.len THEN n.state = "SessionEstablished" /\ n.tracker = Nothing
             ELSE /\ n.state = "SendXferSegments" /\ n.tracker # Nothing
                  /\ n.tracker.pos = s.tracker.pos
          /\ n.terminating = s.terminating /\ s.tracker \in Trackers
      BY <1>4, <1>6, <1>12, <3>2, TakeAckEffect
    <3> QED
      BY <3>1, <3>3
  <2>6. TypeInv' /\ Frame(x) /\ Headed(n, session'[x]) /\ ReadBy(x)
    BY <1>2, <1>3, <1>4, <2>2, <2>5, ReadTurn
  <2>7. PICK m : m = session'[x]
    OBVIOUS
  <2>8. CASE h.len = s.tracker.len
    <3>1. n.state = "SessionEstablished" /\ n.tracker = Nothing /\ is_established(n)
      BY <1>6, <2>5, <2>8 DEF is_established, SameLoop
    <3>2. /\ m.request = 0 /\ m.results = [s.results EXCEPT ![s.request] = "ok"]
          /\ m.last_used_transfer_id = s.last_used_transfer_id /\ m.tracker = Nothing
          /\ SameReceiver(s, m) /\ m.state = "SessionEstablished"
          /\ m.outcome \in {s.outcome, "closed"}
      BY <2>3, <2>5, <2>6, <2>7, <3>1 DEF Headed, SameSender, SameReceiver, SameLoop
    <3>3. s.request \in DOMAIN s.results /\ b[s.request] \in Nat \ {0}
      <4>1. s.request \in DOMAIN s.results
        BY <1>4, <2>3 DEF StateInv
      <4>2. b[s.request] \in Nat \ {0}
        BY <1>3, <1>4, <2>3, RequestIs
      <4> QED
        BY <4>1, <4>2
    <3>4. TransferDone(s, m, h, b)
      BY <1>5, <2>3, <2>8, <3>2, <3>3 DEF TransferDone
    <3>5. HandshakeInv' /\ Transferring'
      <4>1. /\ TransferDone(session[x], session'[x], h, Bundles(x))
            /\ SameReceiver(session[x], session'[x])
            /\ session[x].state = "SendXferSegments"
            /\ session'[x].state = "SessionEstablished"
            /\ session'[x].outcome \in {session[x].outcome, "closed"}
        BY <1>3, <1>4, <1>12, <2>7, <3>2, <3>4
      <4>2. h = Head(Pipe(Peer(x))) /\ Pipe(Peer(x)) # <<>> /\ Acknowledges(h)
        BY <1>5
      <4> QED
        BY <2>6, <4>1, <4>2, DoneStep
    <3> QED
      BY <2>6, <3>5
  <2>9. CASE h.len # s.tracker.len
    <3>1. n.state = "SendXferSegments" /\ n.tracker # Nothing
          /\ n.tracker.pos = s.tracker.pos
      BY <2>5, <2>9
    <3>2. is_established(n) => n.request = 0
      BY <3>1 DEF is_established
    <3>3. /\ SameSender(n, m) /\ SameReceiver(n, m) /\ m.tracker = n.tracker
          /\ m.state = n.state /\ m.terminating = n.terminating
          /\ m.outcome \in {n.outcome, "closed"}
      BY <2>6, <2>7, <3>2, HeadSame
    <3>4. /\ SenderRests(s, m) /\ SameReceiver(s, m) /\ m.state = "SendXferSegments"
          /\ m.outcome \in {s.outcome, "closed"}
      BY <2>3, <2>5, <3>1, <3>3 DEF SenderRests, SameSender, SameReceiver, SameLoop
    <3>5. ~Segment(Head(Pipe(Peer(x))))
      BY <1>5 DEF Segment, Acknowledges
    <3>6. /\ SenderRests(session[x], session'[x]) /\ SameReceiver(session[x], session'[x])
          /\ session'[x].state \notin HandshakeStates
          /\ (Over(session[x]) => Over(session'[x]))
          /\ session'[x].outcome \in {session[x].outcome, "closed", "failed"}
          /\ session'[x].state # "SendMsgReject"
      BY <1>4, <1>12, <2>7, <3>4 DEF Over, HandshakeStates
    <3>7. HandshakeInv' /\ Transferring'
      BY <1>2, <2>6, <3>5, <3>6, ReadRests
    <3> QED
      BY <2>6, <3>7
  <2> QED
    BY <2>8, <2>9
<1> QED
  BY <1>9, <1>10, <1>11, <1>12

-------------------------------------------------------------------------------
(* The other steps of the loop *)

\* A transfer is passed to the agent.
LEMMA PassUpKeeps ==
  ASSUME TypeInv, HandshakeInv, Transferring, NEW x \in Ends, PassUp(x)
  PROVE  TypeInv' /\ HandshakeInv' /\ Transferring'
<1>1. PICK b \in Seq(Nat) : b = Bundles(x)
  BY ScenarioType
<1>2. PICK s \in Sessions(b) : s = session[x] /\ StateInv(s, b) /\ QueueInv(s, Queue(x))
                               /\ s.nested <= MaxNested
  BY <1>1 DEF TypeInv, SessionInv, LimitsInv
<1>3. /\ s.passing # Nothing /\ Len(receive[x]) < ReceiveCapacity
      /\ receive' = [receive EXCEPT ![x] = Append(@, s.passing)]
      /\ Turn(x, send_ack([s EXCEPT !.passing = Nothing], s.ack))
      /\ UNCHANGED <<scenario, agent, send, wire, stored>>
  BY <1>2 DEF PassUp
<1>4. /\ s.passing \in Transfers /\ s.ack \in Acks
      /\ s.state \in {"SessionEstablished", "SendXferSegments"}
      /\ s.receiving \in Transfers \cup {Nothing}
  BY <1>2, <1>3 DEF StateInv, Sessions
<1>5. PICK u \in Transfers \cup {Nothing} : u = s.receiving
  BY <1>4
<1>6. PICK a \in Acks : a = s.ack
  BY <1>4
<1>7. PICK n : n = send_ack([s EXCEPT !.passing = Nothing], a)
  OBVIOUS
<1>8. Answers(s, n, u, a)
  <2>1. PICK o : o = [s EXCEPT !.passing = Nothing]
    OBVIOUS
  <2>2. o \in Sessions(b) /\ o.state = s.state /\ o.receiving = u
    BY <1>5, <2>1 DEF Sessions
  <2>3. PICK c : c = IF s.state = "SendXferSegments" THEN "SendXferSegmentsAndAck"
                     ELSE "SendXferAck"
    OBVIOUS
  <2>4. n = [o EXCEPT !.ack = a, !.state = c]
    BY <1>7, <2>1, <2>2, <2>3 DEF send_ack
  <2>5. n = [s EXCEPT !.receiving = u, !.passing = Nothing, !.ack = a, !.state = c]
    BY <1>5, <2>1, <2>4 DEF Sessions
  <2> QED
    BY <2>3, <2>5, Zenon DEF Answers
<1>9. /\ n \in Sessions(b) /\ Prepared(n, b) /\ SameSender(s, n) /\ SameLoop(s, n)
      /\ n.receiving = u /\ n.passing = Nothing /\ n.ack = a
      /\ n.tracker = s.tracker /\ n.state \in Acking /\ n.terminating = s.terminating
  <2>1. StateInv(s, b)
    BY <1>2
  <2>2. u \in Transfers \cup {Nothing} /\ a \in Acks
        /\ s.state \in {"SessionEstablished", "SendXferSegments"}
    BY <1>4, <1>5, <1>6
  <2> QED
    BY <1>8, <2>1, <2>2, AckGiven
<1>10. ChannelsInv'
  <2>1. Append(receive[x], s.passing) \in Seq(Transfers)
        /\ Len(Append(receive[x], s.passing)) = Len(receive[x]) + 1
        /\ Len(receive[x]) \in Nat
    BY <1>4 DEF TypeInv, ChannelsInv
  <2>2. Len(Append(receive[x], s.passing)) <= ReceiveCapacity
    BY <1>3, <2>1, SessionAssumption
  <2> QED
    BY <1>3, <2>1, <2>2 DEF TypeInv, ChannelsInv
<1>11. \A z \in Ends : Queue(z)' = Queue(z)
  BY <1>3 DEF Queue
<1>12. TypeInv' /\ Headed(n, session'[x]) /\ session'[Peer(x)] = session[Peer(x)]
  <2>1. QueueInv(n, Queue(x)')
    BY <1>2, <1>9, <1>11, QueueSame DEF SameSender
  <2>2. n.nested <= MaxNested /\ n.buffer = session[x].buffer
    BY <1>2, <1>9 DEF SameLoop
  <2>3. Turn(x, n) /\ Queue(Peer(x))' = Queue(Peer(x)) /\ UNCHANGED scenario
    BY <1>3, <1>6, <1>7, <1>11, ScenarioType
  <2> QED
    BY <1>1, <1>9, <1>10, <2>1, <2>2, <2>3, TurnKeeps
<1>13. PICK m : m = session'[x]
  OBVIOUS
<1>14. is_established(n) => n.request = 0
  BY <1>9 DEF is_established, Acking
<1>15. /\ SameSender(n, m) /\ SameReceiver(n, m) /\ m.tracker = n.tracker
       /\ m.state = n.state /\ m.terminating = n.terminating
       /\ m.outcome \in {n.outcome, "closed"} /\ m.buffer = n.buffer
  <2>1. m.buffer = n.buffer
    BY <1>12, <1>13 DEF Headed
  <2> QED
    BY <1>12, <1>13, <1>14, <2>1, HeadSame
<1>16. Pipe(x)' = Pipe(x) /\ Pipe(Peer(x))' = Pipe(Peer(x))
  BY <1>2, <1>3, <1>9, <1>12, <1>13, <1>15 DEF Pipe, SameLoop
<1>17. HandshakeInv'
  <2>1. Later(Pipe(x), Pipe(x)') /\ Read(Pipe(Peer(x)), Pipe(Peer(x))')
    BY <1>16 DEF Later, Read
  <2>2. session[x].state \notin HandshakeStates /\ session'[x].state \notin HandshakeStates
    BY <1>2, <1>4, <1>9, <1>13, <1>15 DEF HandshakeStates, Acking
  <2> QED
    BY <1>12, <2>1, <2>2, LaterStep
<1>18. ASSUME Unblocked, DirectionInv(x), DirectionInv(Peer(x)), RejectInv
       PROVE  DirectionInv(x)' /\ DirectionInv(Peer(x))' /\ RejectInv'
  <2>0. PICK y \in Ends : y = Peer(x) /\ Peer(y) = x /\ y # x
    BY ScenarioType
  <2>1. DirectionInv(x)'
    <3>1. SenderFrame(x)
      <4>1. Received(y)' = Received(y)
        BY <1>3, <2>0 DEF Received, TypeInv, ChannelsInv
      <4> QED
        BY <1>3, <1>11, <1>12, <2>0, <4>1 DEF SenderFrame
    <3>2. SenderRests(session[x], session'[x])
      BY <1>2, <1>9, <1>13, <1>15 DEF SenderRests, SameSender
    <3>3. OtherSegment(Pipe(x), Pipe(x)') /\ Read(Pipe(Peer(x)), Pipe(Peer(x))')
      BY <1>16 DEF OtherSegment, Read
    <3> QED
      BY <1>18, <3>1, <3>2, <3>3, SenderAlone
  <2>2. RejectInv'
    <3>1. session'[x].state # "SendMsgReject"
          /\ session'[x].outcome \in {session[x].outcome, "closed", "failed"}
      BY <1>2, <1>9, <1>13, <1>15 DEF Acking, SameLoop
    <3> QED
      BY <1>12, <1>18, <3>1, RejectKeeps
  <2>3. DirectionInv(Peer(x))'
    <3>1. PICK r \in Nat : TransferInv(session[y], session[x], Pipe(y), Pipe(x),
                                       Received(x), Bundles(y), Queue(y), r)
      BY <1>18, <2>0, DirectionIs
    <3>2. PICK g \in Seq(Transfers) : g = Received(x)
      BY QueueType, ConcatProperties DEF TypeInv, Received
    <3>3. PICK g2 : g2 = Append(g, s.passing)
      OBVIOUS
    <3>4. Received(x)' = g2
      <4>1. PICK e \in Transfers : e = s.passing
        BY <1>4
      <4>2. receive'[x] = Append(receive[x], e) /\ stored'[x] = stored[x]
        BY <1>3, <4>1 DEF TypeInv, ChannelsInv
      <4>3. stored[x] \in Seq(Transfers) /\ receive[x] \in Seq(Transfers)
        BY QueueType DEF TypeInv
      <4>4. stored[x] \o Append(receive[x], e) = Append(stored[x] \o receive[x], e)
        <5>1. PICK i \in Seq(Transfers) : i = stored[x]
          BY <4>3
        <5>2. PICK j \in Seq(Transfers) : j = receive[x]
          BY <4>3
        <5>3. e \in Transfers
          BY <4>1
        <5>4. i \o Append(j, e) = Append(i \o j, e)
          BY <5>3, PipeBuffered
        <5> QED
          BY <5>1, <5>2, <5>4
      <4> QED
        BY <3>2, <3>3, <4>1, <4>2, <4>4 DEF Received
    <3>5. PassedUp(s, m)
      BY <1>3, <1>4, <1>5, <1>6, <1>9, <1>15 DEF PassedUp, SameReceiver, Over
    <3>6. PICK v \in Seq(Nat \ {0}) : v = Bundles(y)
      BY ScenarioType
    <3>7. PICK w \in Seq(Nat) : w = Queue(y)
      BY QueueType DEF TypeInv
    <3>8. PICK z : z = session[y]
      OBVIOUS
    <3>9. TransferInv(z, s, Pipe(y), Pipe(x), g, v, w, r)
      BY <1>2, <3>1, <3>2, <3>6, <3>7, <3>8
    <3>10. (z.request # 0 => z.request \in 1..Len(v)) /\ QueueInv(z, w)
      BY <3>6, <3>7, <3>8, RequestIs DEF TypeInv, SessionInv
    <3>11. TransferInv(z, m, Pipe(y), Pipe(x), g2, v, w, r)
      BY <1>4, <3>3, <3>5, <3>9, <3>10, PassedUpKeeps
    <3>12. TransferInv(session'[y], session'[Peer(y)], Pipe(y)', Pipe(Peer(y))',
                       Received(Peer(y))', Bundles(y), Queue(y)', r)
      <4>1. /\ session'[y] = z /\ session'[Peer(y)] = m /\ Pipe(y)' = Pipe(y)
            /\ Pipe(Peer(y))' = Pipe(x) /\ Received(Peer(y))' = g2 /\ Bundles(y) = v
            /\ Queue(y)' = w
        BY <1>11, <1>12, <1>13, <1>16, <2>0, <3>4, <3>6, <3>7, <3>8
      <4> QED
        BY <3>11, <4>1
    <3> QED
      BY <1>3, <2>0, <3>12, DirectionNext
  <2> QED
    BY <2>1, <2>2, <2>3
<1>19. Transferring'
  BY <1>3, <1>18, TransferringKeeps
<1> QED
  BY <1>12, <1>17, <1>19

\* The loop goes on from n, which does nothing for a transfer, and nothing else
\* changes.
LEMMA IdleTurn ==
  ASSUME TypeInv, HandshakeInv, Transferring, NEW x \in Ends,
         NEW n \in Sessions(Bundles(x)), Turn(x, n), Prepared(n, Bundles(x)),
         SameSender(session[x], n), SameReceiver(session[x], n),
         n.tracker = session[x].tracker, n.nested <= MaxNested,
         n.buffer = session[x].buffer, n.outcome = session[x].outcome,
         is_established(n) => n.request = 0, session[x].state \notin HandshakeStates,
         n.state \notin HandshakeStates, Over(session[x]) => Over(n),
         n.state = "SendMsgReject" => session[x].state = "SendMsgReject"
                                      /\ n.terminating = session[x].terminating,
         UNCHANGED <<scenario, agent, send, receive, wire, stored>>
  PROVE  TypeInv' /\ HandshakeInv' /\ Transferring'
<1>1. ChannelsInv' /\ UNCHANGED <<scenario, agent, send, receive, stored>>
  BY DEF TypeInv, ChannelsInv
<1>2. \A z \in Ends : Queue(z)' = Queue(z) /\ Received(z)' = Received(z)
  BY <1>1, FrameIs
<1>3. TypeInv' /\ Headed(n, session'[x]) /\ session'[Peer(x)] = session[Peer(x)]
  <2>1. QueueInv(session[x], Queue(x))
    BY DEF TypeInv, SessionInv
  <2>2. QueueInv(n, Queue(x)')
    BY <1>2, <2>1, QueueSame DEF SameSender
  <2>3. Queue(Peer(x))' = Queue(Peer(x)) /\ UNCHANGED scenario
    BY <1>1, <1>2, ScenarioType
  <2> QED
    BY <1>1, <2>2, <2>3, TurnKeeps
<1>4. Frame(x)
  BY <1>1, <1>2, <1>3 DEF Frame
<1>5. PICK m : m = session'[x]
  OBVIOUS
<1>6. PICK s : s = session[x]
  OBVIOUS
<1>7. /\ SameSender(n, m) /\ SameReceiver(n, m) /\ m.tracker = n.tracker
      /\ m.state = n.state /\ m.terminating = n.terminating
      /\ m.outcome \in {n.outcome, "closed"}
  BY <1>3, <1>5, HeadSame
<1>8. m.buffer = n.buffer
  BY <1>3, <1>5 DEF Headed
<1>9. Pipe(x)' = Pipe(x) /\ Pipe(Peer(x))' = Pipe(Peer(x))
  BY <1>3, <1>5, <1>8 DEF Pipe
<1>10. SenderRests(s, m) /\ ReceiverRests(s, m)
  <2>1. SameSender(s, m) /\ SameReceiver(s, m) /\ m.tracker = s.tracker
    BY <1>6, <1>7 DEF SameSender, SameReceiver
  <2>2. Over(s) => Over(m)
    BY <1>6, <1>7 DEF Over
  <2> QED
    BY <2>1, <2>2 DEF SenderRests, ReceiverRests
<1>11. HandshakeInv'
  <2>1. Later(Pipe(x), Pipe(x)') /\ Read(Pipe(Peer(x)), Pipe(Peer(x))')
    BY <1>9 DEF Later, Read
  <2>2. session'[x].state \notin HandshakeStates
    BY <1>5, <1>7
  <2> QED
    BY <1>4, <2>1, <2>2, LaterKeeps
<1>12. Transferring'
  <2>1. OtherSegment(Pipe(x), Pipe(x)') /\ OtherAck(Pipe(x), Pipe(x)')
        /\ Skipped(Pipe(Peer(x)), Pipe(Peer(x))', session'[x])
    BY <1>9 DEF OtherSegment, OtherAck, Skipped
  <2>2. (RejectInv /\ session'[x].state = "SendMsgReject") => session'[x].terminating
    BY <1>5, <1>7 DEF RejectInv
  <2>3. session'[x].outcome \in {session[x].outcome, "closed", "failed"}
    BY <1>5, <1>7
  <2>4. SenderRests(session[x], session'[x]) /\ ReceiverRests(session[x], session'[x])
    BY <1>5, <1>6, <1>10
  <2> QED
    BY <1>4, <2>1, <2>2, <2>3, <2>4, BothRest
<1> QED
  BY <1>3, <1>11, <1>12

\* A tick of the keepalive timer.
LEMMA TickKeeps ==
  ASSUME TypeInv, HandshakeInv, Transferring, NEW x \in Ends, Tick(x)
  PROVE  TypeInv' /\ HandshakeInv' /\ Transferring'
<1>1. PICK b \in Seq(Nat) : b = Bundles(x)
  BY ScenarioType
<1>2. PICK s \in Sessions(b) : s = session[x] /\ StateInv(s, b)
  BY <1>1 DEF TypeInv, SessionInv
<1>3. /\ s.passing = Nothing /\ s.established /\ s.nested < MaxNested
      /\ UNCHANGED <<scenario, agent, send, receive, wire, stored>>
  BY <1>2 DEF Tick, Running
<1>4. s.state \notin HandshakeStates /\ s.nested \in Nat /\ s.quiet \in Nat
  BY <1>2, <1>3 DEF StateInv, Sessions
<1>5. PICK c \in {s.state, "SendSessTerm"} :
        /\ c = IF is_established(s) /\ s.quiet = 2 THEN "SendSessTerm" ELSE s.state
        /\ c # s.state => s.state = "SessionEstablished"
  BY DEF is_established
<1>6. PICK k \in Nat :
        k = IF scenario.narrow # {} /\ s.quiet < 2 THEN s.quiet + 1 ELSE s.quiet
  BY <1>4
<1>7. PICK d \in {s.nested, s.nested + 1} : d = s.nested + 1
  OBVIOUS
<1>8. PICK n : n = [s EXCEPT !.state = c, !.quiet = k, !.nested = d]
  OBVIOUS
<1>9. Turn(x, n)
  BY <1>2, <1>5, <1>6, <1>7, <1>8 DEF Tick
<1>10. /\ n \in Sessions(b) /\ Prepared(n, b)
       /\ SameSender(s, n) /\ SameReceiver(s, n)
       /\ n.state = c /\ n.tracker = s.tracker /\ n.terminating = s.terminating
       /\ n.nested = d /\ n.buffer = s.buffer /\ n.established = s.established
       /\ n.outcome = s.outcome
  <2>1. Ticks(s, n, c, k, d)
    BY <1>8 DEF Ticks
  <2>2. StateInv(s, b) /\ c \in {s.state, "SendSessTerm"} /\ k \in Nat
        /\ d \in {s.nested, s.nested + 1} /\ (c # s.state => s.state = "SessionEstablished")
    BY <1>2, <1>5, <1>6, <1>7
  <2>3. s.passing = Nothing /\ s.state \notin HandshakeStates
    BY <1>3, <1>4
  <2> QED
    BY <2>1, <2>2, <2>3, TimerEffect
<1>11. n.nested <= MaxNested /\ ~is_established(n)
  BY <1>3, <1>4, <1>7, <1>10, SessionAssumption DEF is_established
<1>12. /\ n.state \notin HandshakeStates /\ (Over(s) => Over(n))
       /\ n.state = "SendMsgReject" => s.state = "SendMsgReject"
  BY <1>4, <1>5, <1>10 DEF HandshakeStates, Over
<1> QED
  BY <1>1, <1>2, <1>3, <1>4, <1>9, <1>10, <1>11, <1>12, IdleTurn

\* The agent has asked to close.
LEMMA CloseConnectionKeeps ==
  ASSUME TypeInv, HandshakeInv, Transferring, NEW x \in Ends, CloseConnection(x)
  PROVE  TypeInv' /\ HandshakeInv' /\ Transferring'
<1>1. PICK b \in Seq(Nat) : b = Bundles(x)
  BY ScenarioType
<1>2. PICK s \in Sessions(b) : s = session[x] /\ StateInv(s, b) /\ s.nested <= MaxNested
  BY <1>1 DEF TypeInv, SessionInv, LimitsInv
<1>3. /\ s.passing = Nothing /\ s.state = "SessionEstablished"
      /\ UNCHANGED <<scenario, agent, send, receive, wire, stored>>
  BY <1>2 DEF CloseConnection, Running, is_established
<1>4. s.state \notin HandshakeStates /\ s.quiet \in Nat /\ s.nested \in Nat
  BY <1>3 DEF HandshakeStates, Sessions
<1>5. PICK c \in {s.state, "SendSessTerm"} : c = "SendSessTerm"
  OBVIOUS
<1>6. PICK k \in Nat : k = s.quiet
  BY <1>4
<1>7. PICK d \in {s.nested, s.nested + 1} : d = s.nested
  OBVIOUS
<1>8. PICK n : n = [s EXCEPT !.state = c]
  OBVIOUS
<1>9. Turn(x, n)
  BY <1>2, <1>5, <1>8 DEF CloseConnection
<1>10. /\ n \in Sessions(b) /\ Prepared(n, b)
       /\ SameSender(s, n) /\ SameReceiver(s, n)
       /\ n.state = c /\ n.tracker = s.tracker /\ n.terminating = s.terminating
       /\ n.nested = d /\ n.buffer = s.buffer /\ n.established = s.established
       /\ n.outcome = s.outcome
  <2>1. Ticks(s, n, c, k, d)
    BY <1>6, <1>7, <1>8 DEF Ticks, Sessions
  <2>2. StateInv(s, b) /\ c \in {s.state, "SendSessTerm"} /\ k \in Nat
        /\ d \in {s.nested, s.nested + 1} /\ (c # s.state => s.state = "SessionEstablished")
    BY <1>2, <1>3, <1>5, <1>6, <1>7
  <2>3. s.passing = Nothing /\ s.state \notin HandshakeStates
    BY <1>3, <1>4
  <2> QED
    BY <2>1, <2>2, <2>3, TimerEffect
<1>11. n.nested <= MaxNested /\ ~is_established(n)
  BY <1>2, <1>5, <1>7, <1>10 DEF is_established
<1>12. /\ n.state \notin HandshakeStates /\ (Over(s) => Over(n))
       /\ n.state # "SendMsgReject"
  BY <1>5, <1>10 DEF HandshakeStates, Over
<1> QED
  BY <1>1, <1>2, <1>3, <1>4, <1>9, <1>10, <1>11, <1>12, IdleTurn

\* A bundle is taken: the queue of x and its session change.
LEMMA TakenStep ==
  ASSUME TypeInv, HandshakeInv, Transferring, NEW x \in Ends, NEW h,
         Taken(Queue(x), h, Queue(x)'), session[x].state = "SessionEstablished",
         session[x].request = 0, h # 0,
         session'[x].state \in {"SessionEstablished", "SendXferSegments"},
         session'[x].outcome \in {session[x].outcome, "closed"},
         SameReceiver(session[x], session'[x]),
         \/ Refused(session[x], session'[x], h)
         \/ TransferBegun(session[x], session'[x], h),
         session'[Peer(x)] = session[Peer(x)], session'[x].buffer = session[x].buffer,
         Queue(Peer(x))' = Queue(Peer(x)), UNCHANGED <<scenario, receive, wire, stored>>
  PROVE  HandshakeInv' /\ Transferring'
<1>1. Pipe(x)' = Pipe(x) /\ Pipe(Peer(x))' = Pipe(Peer(x))
  BY DEF Pipe
<1>2. \A z \in Ends : Received(z)' = Received(z)
  BY DEF Received
<1>3. HandshakeInv'
  <2>1. Later(Pipe(x), Pipe(x)') /\ Read(Pipe(Peer(x)), Pipe(Peer(x))')
    BY <1>1 DEF Later, Read
  <2>2. session[x].state \notin HandshakeStates /\ session'[x].state \notin HandshakeStates
    BY DEF HandshakeStates
  <2> QED
    BY <2>1, <2>2, LaterStep
<1>4. ASSUME Unblocked, DirectionInv(x), DirectionInv(Peer(x)), RejectInv
      PROVE  DirectionInv(x)' /\ DirectionInv(Peer(x))' /\ RejectInv'
  <2>1. DirectionInv(Peer(x))'
    <3>1. ReceiverFrame(x)
      BY <1>2 DEF ReceiverFrame
    <3>2. ReceiverRests(session[x], session'[x])
      BY DEF ReceiverRests, Over
    <3>3. Skipped(Pipe(Peer(x)), Pipe(Peer(x))', session'[x]) /\ OtherAck(Pipe(x), Pipe(x)')
      BY <1>1 DEF Skipped, OtherAck
    <3> QED
      BY <1>4, <3>1, <3>2, <3>3, ReceiverAlone
  <2>2. RejectInv'
    BY <1>4, RejectKeeps
  <2>3. DirectionInv(x)'
    <3>1. PICK r \in Nat : TransferInv(session[x], session[Peer(x)], Pipe(x), Pipe(Peer(x)),
                                       Received(Peer(x)), Bundles(x), Queue(x), r)
      BY <1>4, DirectionIs
    <3>2. Pipe(x) \in Seq(Messages) /\ Pipe(Peer(x)) \in Seq(Messages) /\ Peer(x) \in Ends
          /\ Queue(x) \in Seq(Nat)
      BY PipeType, ScenarioType, QueueType DEF TypeInv
    <3>3. PICK n : n = session'[x]
      OBVIOUS
    <3>4. PICK w : w = Queue(x)'
      OBVIOUS
    <3>5. Taken(Queue(x), h, w)
      BY <3>4
    <3>6. \E k \in Nat : TransferInv(n, session[Peer(x)], Pipe(x), Pipe(Peer(x)),
                                     Received(Peer(x)), Bundles(x), w, k)
      <4>1. CASE Refused(session[x], n, h)
        <5>1. TransferInv(n, session[Peer(x)], Pipe(x), Pipe(Peer(x)),
                          Received(Peer(x)), Bundles(x), w, r)
          BY <3>1, <3>2, <3>5, <4>1, RefusedKeeps
        <5> QED
          BY <5>1
      <4>2. CASE TransferBegun(session[x], n, h)
        <5>1. TransferInv(n, session[Peer(x)], Pipe(x), Pipe(Peer(x)),
                          Received(Peer(x)), Bundles(x), w, 0)
          BY <3>1, <3>2, <3>5, <4>2, TransferBegunKeeps
        <5>2. 0 \in Nat
          OBVIOUS
        <5> QED
          BY <5>1, <5>2
      <4> QED
        BY <3>3, <4>1, <4>2
    <3>7. PICK k \in Nat : TransferInv(n, session[Peer(x)], Pipe(x), Pipe(Peer(x)),
                                       Received(Peer(x)), Bundles(x), w, k)
      BY <3>6
    <3>8. TransferInv(session'[x], session'[Peer(x)], Pipe(x)', Pipe(Peer(x))',
                      Received(Peer(x))', Bundles(x), Queue(x)', k)
      BY <1>1, <1>2, <3>2, <3>3, <3>4, <3>7
    <3> QED
      BY <3>8, DirectionNext
  <2> QED
    BY <2>1, <2>2, <2>3
<1> QED
  BY <1>3, <1>4, TransferringKeeps

\* The next bundle is the first of the channel.
LEMMA QueueHead ==
  ASSUME NEW i \in Seq(Nat), NEW j \in Seq(Nat), i # <<>>
  PROVE  Tail(i) \o j = Tail(i \o j) /\ Head(i \o j) = Head(i) /\ i \o j # <<>>
BY PipeRead

\* The next bundle is taken.
LEMMA TakeTransferKeeps ==
  ASSUME TypeInv, HandshakeInv, Transferring, NEW x \in Ends, TakeTransfer(x)
  PROVE  TypeInv' /\ HandshakeInv' /\ Transferring'
<1>1. PICK b \in Seq(Nat) : b = Bundles(x) /\ b \in Seq(Nat \ {0})
  BY ScenarioType
<1>2. PICK s \in Sessions(b) : s = session[x] /\ StateInv(s, b) /\ QueueInv(s, Queue(x))
                               /\ s.nested <= MaxNested
  BY <1>1 DEF TypeInv, SessionInv, LimitsInv
<1>3. /\ s.passing = Nothing /\ s.state = "SessionEstablished" /\ s.nested = 0
      /\ send[x] # <<>> /\ send' = [send EXCEPT ![x] = Tail(@)]
      /\ UNCHANGED <<scenario, agent, receive, wire, stored>>
  BY <1>2 DEF TakeTransfer, Running, is_established
<1>4. s.request = 0
  BY <1>2, <1>3 DEF StateInv
<1>5. PICK q \in Seq(Nat) : q = Queue(x)
  BY QueueType DEF TypeInv
<1>6. PICK w : w = Tail(q)
  OBVIOUS
<1>7. PICK h : h = Head(q)
  OBVIOUS
<1>8. send[x] \in Seq(Nat) /\ agent[x].todo \in Seq(Nat) /\ send \in [Ends -> Seq(Nat)]
  BY QueueType DEF TypeInv, ChannelsInv
<1>9. Queue(x)' = w /\ h = Head(send[x]) /\ q # <<>>
  <2>1. PICK i \in Seq(Nat) : i = send[x] /\ i # <<>>
    BY <1>3, <1>8
  <2>2. PICK j \in Seq(Nat) : j = agent[x].todo
    BY <1>8
  <2>3. i \in Seq(Nat) /\ j \in Seq(Nat) /\ i # <<>>
    BY <2>1, <2>2
  <2>4. Tail(i) \o j = Tail(i \o j) /\ Head(i \o j) = Head(i) /\ i \o j # <<>>
    BY <2>3, QueueHead
  <2>5. q = i \o j
    BY <1>5, <2>1, <2>2 DEF Queue
  <2>6. Queue(x)' = Tail(i) \o j
    BY <1>3, <1>8, <2>1, <2>2 DEF Queue
  <2> QED
    BY <1>6, <1>7, <2>1, <2>4, <2>5, <2>6
<1>10. Taken(q, h, w) /\ QueueInv(s, q)
  BY <1>2, <1>5, <1>6, <1>7, <1>9, QueueTail
<1>11. s.request < h /\ h \in Nat
  <2>1. s.request < h
    BY <1>10, QueueLeft
  <2> QED
    BY <1>10, <2>1, Zenon DEF Taken
<1>12. ChannelsInv'
  <2>1. Tail(send[x]) \in Seq(Nat) /\ Len(Tail(send[x])) <= Len(send[x])
        /\ Len(Tail(send[x])) \in Nat /\ Len(send[x]) \in Nat
    BY <1>3, <1>8
  <2>2. Len(Tail(send[x])) <= SendCapacity
    BY <2>1, SessionAssumption DEF TypeInv, ChannelsInv
  <2> QED
    BY <1>3, <2>1, <2>2 DEF TypeInv, ChannelsInv
<1>13. Queue(Peer(x))' = Queue(Peer(x))
  <2>1. Peer(x) # x /\ Peer(x) \in Ends
    BY ScenarioType
  <2> QED
    BY <1>3, <1>8, <2>1 DEF Queue
<1>14. ASSUME NEW n \in Sessions(b), Prepared(n, b), QueueInv(n, w), Turn(x, n),
              SameReceiver(s, n), SameLoop(s, n), is_established(n) => n.request = 0,
              n.state \in {"SessionEstablished", "SendXferSegments"},
              Refused(s, n, h) \/ TransferBegun(s, n, h)
       PROVE  TypeInv' /\ HandshakeInv' /\ Transferring'
  <2>1. TypeInv' /\ Headed(n, session'[x]) /\ session'[Peer(x)] = session[Peer(x)]
    <3>1. n \in Sessions(Bundles(x)) /\ Prepared(n, Bundles(x)) /\ Turn(x, n)
      BY <1>1, <1>14
    <3>2. n.nested <= MaxNested /\ n.buffer = session[x].buffer
      BY <1>2, <1>14 DEF SameLoop
    <3>3. QueueInv(n, Queue(x)') /\ UNCHANGED scenario
      BY <1>3, <1>9, <1>14
    <3> QED
      BY <1>12, <1>13, <3>1, <3>2, <3>3, TurnKeeps
  <2>2. PICK m : m = session'[x]
    OBVIOUS
  <2>3. /\ SameSender(n, m) /\ SameReceiver(n, m) /\ m.tracker = n.tracker
        /\ m.state = n.state /\ m.outcome \in {n.outcome, "closed"}
    BY <1>14, <2>1, <2>2, HeadSame
  <2>4. m.buffer = s.buffer
    BY <1>14, <2>1, <2>2 DEF Headed, SameLoop
  <2>5. Refused(s, m, h) \/ TransferBegun(s, m, h)
    BY <1>14, <2>3 DEF Refused, TransferBegun, SameSender
  <2>6. SameReceiver(s, m) /\ m.outcome \in {s.outcome, "closed"}
    BY <1>14, <2>3 DEF SameReceiver, SameLoop
  <2>7. h # 0
    BY <1>4, <1>11
  <2>8. HandshakeInv' /\ Transferring'
    <3>1. /\ Taken(Queue(x), h, Queue(x)') /\ session[x].state = "SessionEstablished"
          /\ session[x].request = 0
          /\ session'[x].state \in {"SessionEstablished", "SendXferSegments"}
          /\ session'[x].outcome \in {session[x].outcome, "closed"}
          /\ SameReceiver(session[x], session'[x])
          /\ session'[x].buffer = session[x].buffer
      BY <1>2, <1>3, <1>4, <1>5, <1>9, <1>10, <1>14, <2>2, <2>3, <2>4, <2>6
    <3>2. Refused(session[x], session'[x], h) \/ TransferBegun(session[x], session'[x], h)
      BY <1>2, <2>2, <2>5
    <3> QED
      BY <1>3, <1>13, <2>1, <2>7, <3>1, <3>2, TakenStep
  <2> QED
    BY <2>1, <2>8
<1>15. CASE b[h] > TransferMru
  <2>1. PICK n : n = [s EXCEPT !.results[h] = "too large"]
    OBVIOUS
  <2>2. Turn(x, n)
    BY <1>1, <1>2, <1>9, <1>15, <2>1 DEF TakeTransfer, Bundles
  <2>3. /\ n \in Sessions(b) /\ Prepared(n, b) /\ QueueInv(n, w)
        /\ Refused(s, n, h) /\ SameReceiver(s, n) /\ SameLoop(s, n)
        /\ n.state = s.state /\ n.terminating = s.terminating
    <3>1. Refuses(s, n, h)
      BY <2>1 DEF Refuses
    <3>2. b \in Seq(Nat) /\ s \in Sessions(b) /\ StateInv(s, b) /\ q \in Seq(Nat)
      BY <1>1, <1>2, <1>5
    <3>3. s.nested = 0 /\ s.state = "SessionEstablished"
      BY <1>3
    <3> QED
      BY <1>10, <3>1, <3>2, <3>3, TooLargeEffect
  <2>4. is_established(n) => n.request = 0
    BY <1>4, <2>3 DEF Refused
  <2> QED
    BY <1>3, <1>4, <1>14, <2>2, <2>3, <2>4
<1>16. CASE ~(b[h] > TransferMru)
  <2>1. PICK t : t = [id |-> s.last_used_transfer_id, len |-> b[h], pos |-> 0, acked |-> 0]
    OBVIOUS
  <2>2. PICK n : n = [s EXCEPT !.state = "SendXferSegments", !.request = h,
                               !.last_used_transfer_id = @ + 1, !.tracker = t]
    OBVIOUS
  <2>3. Turn(x, n)
    BY <1>1, <1>2, <1>9, <1>16, <2>1, <2>2 DEF TakeTransfer, Bundles
  <2>4. /\ n \in Sessions(b) /\ Prepared(n, b) /\ QueueInv(n, w)
        /\ n.request = h /\ n.results = s.results
        /\ n.last_used_transfer_id = s.last_used_transfer_id + 1
        /\ SameReceiver(s, n) /\ SameLoop(s, n) /\ n.tracker = t
        /\ n.state = "SendXferSegments" /\ n.terminating = s.terminating
    <3>1. Begins(s, n, h, t)
      BY <2>2 DEF Begins
    <3>2. b \in Seq(Nat \ {0}) /\ StateInv(s, b) /\ q \in Seq(Nat)
      BY <1>1, <1>2, <1>5
    <3> QED
      BY <1>3, <1>10, <2>1, <3>1, <3>2, TransferEffect
  <2>5. TransferBegun(s, n, h)
    <3>1. t.pos = 0 /\ h # 0
      BY <1>4, <1>11, <2>1
    <3> QED
      BY <1>4, <2>4, <3>1 DEF TransferBegun
  <2>6. ~is_established(n)
    BY <2>4 DEF is_established
  <2> QED
    BY <1>14, <2>3, <2>4, <2>5, <2>6
<1> QED
  BY <1>15, <1>16

-------------------------------------------------------------------------------
(* The agents *)

\* Nothing changes for the sessions: bundles move within the queue of an end, or
\* transfers from its channel to the storage.
LEMMA AgentKeeps ==
  ASSUME TypeInv, HandshakeInv, Transferring, ChannelsInv',
         UNCHANGED <<scenario, session, wire>>,
         \A z \in Ends : Queue(z)' = Queue(z) /\ Received(z)' = Received(z)
  PROVE  TypeInv' /\ HandshakeInv' /\ Transferring'
<1>1. \A z \in Ends : Pipe(z)' = Pipe(z) /\ Bundles(z)' = Bundles(z)
  BY DEF Pipe, Bundles
<1>2. TypeInv'
  <2>1. ASSUME NEW z \in Ends
        PROVE  SessionInv(z)'
    <3>1. SessionInv(z)
      BY DEF TypeInv
    <3> QED
      BY <1>1, <3>1 DEF SessionInv
  <2> QED
    BY <2>1 DEF TypeInv
<1>3. HandshakeInv'
  BY <1>1, Zenon DEF HandshakeInv, Ends
<1>4. PICK x \in Ends : x = "active"
  BY DEF Ends
<1>5. ASSUME NEW z \in Ends, DirectionInv(z)
      PROVE  DirectionInv(z)'
  <2>1. PICK r \in Nat : TransferInv(session[z], session[Peer(z)], Pipe(z), Pipe(Peer(z)),
                                     Received(Peer(z)), Bundles(z), Queue(z), r)
    BY <1>5, DirectionIs
  <2>2. Peer(z) \in Ends
    BY ScenarioType
  <2>3. TransferInv(session'[z], session'[Peer(z)], Pipe(z)', Pipe(Peer(z))',
                    Received(Peer(z))', Bundles(z), Queue(z)', r)
    BY <1>1, <2>1, <2>2
  <2> QED
    BY <2>3, DirectionNext
<1>6. Transferring'
  <2>1. Peer(x) \in Ends
    BY ScenarioType
  <2>2. RejectInv => RejectInv'
    BY DEF RejectInv
  <2> QED
    BY <1>5, <2>1, <2>2, TransferringKeeps
<1> QED
  BY <1>2, <1>3, <1>6

\* A bundle goes into the channel, or the agent waits for room.
LEMMA AgentForwardKeeps ==
  ASSUME TypeInv, HandshakeInv, Transferring, NEW x \in Ends, AgentForward(x)
  PROVE  TypeInv' /\ HandshakeInv' /\ Transferring'
<1>1. /\ agent[x].todo # <<>> /\ UNCHANGED <<scenario, session, receive, wire, stored>>
      /\ agent \in [Ends -> Agents] /\ send \in [Ends -> Seq(Nat)]
  BY DEF AgentForward, TypeInv, ChannelsInv
<1>2. send[x] \in Seq(Nat) /\ agent[x].todo \in Seq(Nat) /\ agent[x] \in Agents
  BY <1>1, QueueType DEF TypeInv
<1>3. \A z \in Ends : Received(z)' = Received(z)
  BY <1>1 DEF Received
<1>4. CASE /\ Len(send[x]) < SendCapacity
           /\ send' = [send EXCEPT ![x] = Append(@, Head(agent[x].todo))]
           /\ agent' = [agent EXCEPT ![x].todo = Tail(@), ![x].waiting = FALSE]
  <2>1. PICK i \in Seq(Nat) : i = send[x] /\ Len(i) < SendCapacity
    BY <1>2, <1>4
  <2>2. PICK j \in Seq(Nat) : j = agent[x].todo /\ j # <<>>
    BY <1>1, <1>2
  <2>3. Head(j) \in Nat /\ Tail(j) \in Seq(Nat)
    BY <2>2
  <2>4. Append(i, Head(j)) \in Seq(Nat) /\ Len(Append(i, Head(j))) <= SendCapacity
    <3>1. Len(Append(i, Head(j))) = Len(i) + 1 /\ Len(i) \in Nat
      BY <2>3
    <3> QED
      BY <2>1, <2>3, <3>1, SessionAssumption
  <2>5. send'[x] = Append(i, Head(j)) /\ \A z \in Ends : z # x => send'[z] = send[z]
    BY <1>1, <1>4, <2>1, <2>2
  <2>6. /\ agent'[x] \in Agents /\ agent'[x].todo = Tail(j)
        /\ agent' \in [Ends -> Agents] /\ \A z \in Ends : z # x => agent'[z] = agent[z]
    BY <1>1, <1>2, <1>4, <2>2, <2>3 DEF Agents
  <2>7. ChannelsInv'
    BY <1>1, <1>4, <2>4, <2>5, <2>6 DEF TypeInv, ChannelsInv
  <2>8. Append(i, Head(j)) \o Tail(j) = i \o j
    BY <2>2, PipeFlushed
  <2>9. ASSUME NEW z \in Ends
        PROVE  Queue(z)' = Queue(z)
    <3>1. CASE z = x
      BY <2>1, <2>2, <2>5, <2>6, <2>8, <3>1 DEF Queue
    <3>2. CASE z # x
      BY <2>5, <2>6, <3>2 DEF Queue
    <3> QED
      BY <3>1, <3>2
  <2> QED
    BY <1>1, <1>3, <2>7, <2>9, AgentKeeps
<1>5. CASE agent' = [agent EXCEPT ![x].waiting = TRUE] /\ UNCHANGED send
  <2>1. /\ agent' \in [Ends -> Agents]
        /\ \A z \in Ends : agent'[z].todo = agent[z].todo
    BY <1>1, <1>2, <1>5 DEF Agents
  <2>2. ChannelsInv'
    BY <1>1, <1>5, <2>1 DEF TypeInv, ChannelsInv
  <2>3. \A z \in Ends : Queue(z)' = Queue(z)
    BY <1>5, <2>1 DEF Queue
  <2> QED
    BY <1>1, <1>3, <2>2, <2>3, AgentKeeps
<1> QED
  BY <1>4, <1>5 DEF AgentForward

\* A transfer is stored.
LEMMA AgentReceiveKeeps ==
  ASSUME TypeInv, HandshakeInv, Transferring, NEW x \in Ends, AgentReceive(x)
  PROVE  TypeInv' /\ HandshakeInv' /\ Transferring'
<1>1. /\ receive[x] # <<>> /\ UNCHANGED <<scenario, session, agent, send, wire>>
      /\ stored' = [stored EXCEPT ![x] = Append(@, Head(receive[x]))]
      /\ receive' = [receive EXCEPT ![x] = Tail(@)]
      /\ receive \in [Ends -> Seq(Transfers)] /\ stored \in [Ends -> Seq(Transfers)]
  BY DEF AgentReceive, TypeInv, ChannelsInv
<1>2. PICK i \in Seq(Transfers) : i = stored[x]
  BY <1>1
<1>3. PICK j \in Seq(Transfers) : j = receive[x] /\ j # <<>> /\ Len(j) <= ReceiveCapacity
  BY <1>1 DEF TypeInv, ChannelsInv
<1>4. /\ Head(j) \in Transfers /\ Tail(j) \in Seq(Transfers)
      /\ Len(Tail(j)) = Len(j) - 1 /\ Len(j) \in Nat
      /\ Append(i, Head(j)) \in Seq(Transfers)
  BY <1>3
<1>5. Len(Tail(j)) <= ReceiveCapacity
  BY <1>3, <1>4, SessionAssumption
<1>6. /\ stored'[x] = Append(i, Head(j)) /\ receive'[x] = Tail(j)
      /\ \A z \in Ends : z # x => stored'[z] = stored[z] /\ receive'[z] = receive[z]
  BY <1>1, <1>2, <1>3
<1>7. ChannelsInv'
  BY <1>1, <1>4, <1>5, <1>6 DEF TypeInv, ChannelsInv
<1>8. Append(i, Head(j)) \o Tail(j) = i \o j
  BY <1>3, PipeFlushed
<1>9. ASSUME NEW z \in Ends
      PROVE  Received(z)' = Received(z) /\ Queue(z)' = Queue(z)
  <2>1. Queue(z)' = Queue(z)
    BY <1>1 DEF Queue
  <2>2. CASE z = x
    BY <1>2, <1>3, <1>6, <1>8, <2>1, <2>2 DEF Received
  <2>3. CASE z # x
    BY <1>6, <2>1, <2>3 DEF Received
  <2> QED
    BY <2>2, <2>3
<1> QED
  BY <1>1, <1>7, <1>9, AgentKeeps

\* The agent asks to close, or ends.
LEMMA AgentEndsKeeps ==
  ASSUME TypeInv, HandshakeInv, Transferring, NEW x \in Ends,
         AgentClose(x) \/ AgentStop(x)
  PROVE  TypeInv' /\ HandshakeInv' /\ Transferring'
<1>1. /\ UNCHANGED <<scenario, session, send, receive, wire, stored>>
      /\ \/ agent' = [agent EXCEPT ![x].close = TRUE]
         \/ agent' = [agent EXCEPT ![x].up = FALSE]
  BY DEF AgentClose, AgentStop
<1>2. agent \in [Ends -> Agents]
  BY DEF TypeInv, ChannelsInv
<1>3. agent' \in [Ends -> Agents] /\ \A z \in Ends : agent'[z].todo = agent[z].todo
  <2>1. agent[x] \in Agents
    BY <1>2
  <2>2. CASE agent' = [agent EXCEPT ![x].close = TRUE]
    BY <1>2, <2>1, <2>2 DEF Agents
  <2>3. CASE agent' = [agent EXCEPT ![x].up = FALSE]
    BY <1>2, <2>1, <2>3 DEF Agents
  <2> QED
    BY <1>1, <2>2, <2>3
<1>4. ChannelsInv'
  BY <1>1, <1>3 DEF TypeInv, ChannelsInv
<1>5. \A z \in Ends : Queue(z)' = Queue(z) /\ Received(z)' = Received(z)
  BY <1>1, <1>3 DEF Queue, Received
<1> QED
  BY <1>1, <1>4, <1>5, AgentKeeps

-------------------------------------------------------------------------------
(* The invariant *)

\* A new session.
LEMMA NewSessionIs ==
  ASSUME Init, NEW x \in Ends
  PROVE  /\ session[x] \in Sessions(Bundles(x)) /\ session[x].buffer = <<>>
         /\ session[x].request = 0 /\ session[x].nested = 0 /\ session[x].flushing = FALSE
         /\ session[x].tracker = Nothing /\ session[x].ack = Nothing
         /\ session[x].receiving = Nothing /\ session[x].passing = Nothing
         /\ session[x].established = FALSE /\ session[x].outcome = "running"
         /\ session[x].results = [n \in 1..Len(Bundles(x)) |-> "none"]
         /\ x = "active" => session[x].state = "ActiveSendContactHeader"
         /\ x = "passive" => session[x].state = "PassiveWaitContactHeader"
<1>1. session[x] = NewSession(x)
  BY DEF Init
<1>2. PICK z : z = [n \in 1..Len(Bundles(x)) |-> "none"]
  OBVIOUS
<1>3. z \in Results(Bundles(x))
  BY <1>2 DEF Results
<1>4. PICK a : a = IF x = "active" THEN "ActiveSendContactHeader"
                   ELSE "PassiveWaitContactHeader"
  OBVIOUS
<1>5. a \in States
  BY <1>4 DEF States, HandshakeStates
<1>6. session[x] = [state |-> a, nested |-> 0, tracker |-> Nothing, ack |-> Nothing,
                    terminating |-> FALSE, last_used_transfer_id |-> 0, buffer |-> <<>>,
                    flushing |-> FALSE, receiving |-> Nothing, passing |-> Nothing,
                    request |-> 0, established |-> FALSE, quiet |-> 0,
                    outcome |-> "running", results |-> z]
  BY <1>1, <1>2, <1>4 DEF NewSession, Bundles
<1>7. session[x] \in Sessions(Bundles(x))
  <2>1. <<>> \in Seq(Messages)
    OBVIOUS
  <2> QED
    BY <1>3, <1>5, <1>6, <2>1 DEF Sessions
<1>8. /\ x = "active" => a = "ActiveSendContactHeader"
      /\ x = "passive" => a = "PassiveWaitContactHeader"
  BY <1>4
<1> QED
  BY <1>2, <1>6, <1>7, <1>8

\* The channels are empty, and the agents have all of their bundles to forward.
LEMMA NewChannels ==
  ASSUME Init
  PROVE  /\ ChannelsInv
         /\ \A x \in Ends : /\ Queue(x) = [n \in 1..Len(Bundles(x)) |-> n]
                            /\ Pipe(x) = <<>> /\ Received(x) = <<>>
                            /\ Bundles(x) \in Seq(Nat \ {0})
<1>1. ASSUME NEW x \in Ends
      PROVE  Bundles(x) \in Seq(Nat \ {0})
  <2>1. scenario \in [bundles : [Ends -> Seq(Nat \ {0})], narrow : SUBSET Ends,
                      closing : SUBSET Ends, lossy : BOOLEAN]
    BY SessionAssumption DEF Init
  <2> QED
    BY <2>1 DEF Bundles
<1>2. ASSUME NEW x \in Ends
      PROVE  agent[x] \in Agents /\ agent[x].todo = [n \in 1..Len(Bundles(x)) |-> n]
             /\ agent[x].todo \in Seq(Nat)
  <2>1. Len(Bundles(x)) \in Nat
    BY <1>1
  <2>2. PICK z : z = [n \in 1..Len(Bundles(x)) |-> n]
    OBVIOUS
  <2>3. z \in Seq(Nat)
    BY <2>1, <2>2
  <2>4. agent[x] = [todo |-> z, waiting |-> FALSE, close |-> FALSE, up |-> TRUE]
    BY <2>2 DEF Init, NewAgent, Bundles
  <2> QED
    BY <2>2, <2>3, <2>4 DEF Agents
<1>3. \A x \in Ends : send[x] = <<>> /\ receive[x] = <<>> /\ wire[x] = <<>>
                      /\ stored[x] = <<>>
  BY DEF Init
<1>4. ChannelsInv
  <2>1. Len(<<>>) = 0
    OBVIOUS
  <2>2. agent \in [Ends -> Agents]
    BY <1>2 DEF Init
  <2>3. /\ send \in [Ends -> Seq(Nat)] /\ wire \in [Ends -> Seq(Messages)]
        /\ receive \in [Ends -> Seq(Transfers)] /\ stored \in [Ends -> Seq(Transfers)]
    BY DEF Init
  <2> QED
    BY <1>3, <2>1, <2>2, <2>3, SessionAssumption DEF ChannelsInv
<1>5. ASSUME NEW x \in Ends
      PROVE  /\ Queue(x) = [n \in 1..Len(Bundles(x)) |-> n]
             /\ Pipe(x) = <<>> /\ Received(x) = <<>>
  <2>1. PICK z \in Seq(Nat) : z = agent[x].todo
    BY <1>2
  <2>2. <<>> \o z = z
    BY <2>1
  <2>3. Queue(x) = z
    BY <1>3, <2>1, <2>2 DEF Queue
  <2>4. Pipe(x) = <<>> \o <<>> /\ Received(x) = <<>> \o <<>>
    BY <1>3, NewSessionIs DEF Pipe, Received
  <2> QED
    BY <1>2, <2>1, <2>3, <2>4
<1> QED
  BY <1>1, <1>4, <1>5

\* The initial states satisfy the invariant.
LEMMA InitInv ==
  ASSUME Init
  PROVE  TypeInv /\ HandshakeInv /\ Transferring
<1>1. ASSUME NEW x \in Ends
      PROVE  SessionInv(x)
  <2>1. PICK s : s = session[x]
    OBVIOUS
  <2>2. PICK b \in Seq(Nat \ {0}) : b = Bundles(x)
    BY NewChannels
  <2>3. /\ s \in Sessions(b) /\ s.buffer = <<>>
        /\ s.request = 0 /\ s.nested = 0 /\ s.flushing = FALSE
        /\ s.tracker = Nothing /\ s.ack = Nothing
        /\ s.receiving = Nothing /\ s.passing = Nothing /\ s.established = FALSE
        /\ s.results = [n \in 1..Len(b) |-> "none"]
        /\ s.state \in {"ActiveSendContactHeader", "PassiveWaitContactHeader"}
    BY <2>1, <2>2, NewSessionIs DEF Ends
  <2>4. StateInv(s, b)
    BY <2>3 DEF StateInv, Segmenting, Acking, HandshakeStates
  <2>5. PICK q : q = [n \in 1..Len(b) |-> n]
    OBVIOUS
  <2>6. Queue(x) = q
    BY <2>2, <2>5, NewChannels
  <2>7. QueueInv(s, q)
    <3>1. Len(b) \in Nat
      BY <2>2
    <3>2. Len(q) = Len(b) /\ \A i \in 1..Len(b) : q[i] = i
      BY <2>5, <3>1
    <3> QED
      BY <2>3, <3>1, <3>2 DEF QueueInv
  <2>8. LimitsInv(s, x \in scenario.narrow)
    BY <2>3, SessionAssumption DEF LimitsInv
  <2> QED
    BY <2>1, <2>2, <2>3, <2>4, <2>6, <2>7, <2>8 DEF SessionInv
<1>2. TypeInv
  BY <1>1, NewChannels DEF TypeInv, Init
<1>3. HandshakeInv
  <2>1. /\ session["active"].state = "ActiveSendContactHeader"
        /\ session["passive"].state = "PassiveWaitContactHeader"
    BY NewSessionIs DEF Ends
  <2>2. Pipe("active") = <<>> /\ Pipe("passive") = <<>>
    BY NewChannels DEF Ends
  <2> QED
    BY <2>1, <2>2, Zenon DEF HandshakeInv, Joint
<1>4. ASSUME NEW x \in Ends
      PROVE  DirectionInv(x)
  <2>1. PICK s : s = session[x]
    OBVIOUS
  <2>2. PICK t : t = session[Peer(x)]
    OBVIOUS
  <2>3. Peer(x) \in Ends
    BY DEF Ends, Peer
  <2>4. PICK b : b = Bundles(x)
    OBVIOUS
  <2>5. PICK w : w = Queue(x)
    OBVIOUS
  <2>6. s.request = 0 /\ s.tracker = Nothing /\ s.results = [n \in 1..Len(b) |-> "none"]
    BY <2>1, <2>4, NewSessionIs
  <2>7. t.receiving = Nothing /\ t.passing = Nothing /\ t.ack = Nothing
    BY <2>2, <2>3, NewSessionIs
  <2>8. Len(<<>>) = 0
    OBVIOUS
  <2>9. SegmentsInv(s, t, <<>>, b, 0)
    BY <2>6, <2>8 DEF SegmentsInv
  <2>10. AcksInv(s, t, <<>>, 0)
    BY <2>7, <2>8 DEF AcksInv
  <2>11. ProgressInv(s, t, <<>>, b, 0)
    BY <2>6, <2>7 DEF ProgressInv
  <2>12. ArrivedInv(s, <<>>, b, w)
    BY <2>6, <2>8 DEF ArrivedInv
  <2>13. TransferInv(s, t, <<>>, <<>>, <<>>, b, w, 0)
    BY <2>9, <2>10, <2>11, <2>12 DEF TransferInv
  <2>14. Pipe(x) = <<>> /\ Pipe(Peer(x)) = <<>> /\ Received(Peer(x)) = <<>>
    BY <2>3, NewChannels
  <2>15. TransferInv(session[x], session[Peer(x)], Pipe(x), Pipe(Peer(x)),
                     Received(Peer(x)), Bundles(x), Queue(x), 0)
    BY <2>1, <2>2, <2>4, <2>5, <2>13, <2>14
  <2>16. 0 \in Nat
    OBVIOUS
  <2> QED
    BY <2>15, <2>16 DEF DirectionInv
<1>5. RejectInv
  <2>1. ASSUME NEW x \in Ends
        PROVE  session[x].outcome = "running" /\ session[x].state # "SendMsgReject"
    BY NewSessionIs DEF Ends
  <2> QED
    BY <2>1 DEF RejectInv
<1> QED
  BY <1>2, <1>3, <1>4, <1>5 DEF Transferring

\* Every step keeps the invariant.
LEMMA StepKeeps ==
  ASSUME TypeInv, HandshakeInv, Transferring, [Next]_vars
  PROVE  TypeInv' /\ HandshakeInv' /\ Transferring'
<1>1. ASSUME NEW x \in Ends, SessionStep(x)
      PROVE  TypeInv' /\ HandshakeInv' /\ Transferring'
  <2>1. CASE WriteThrough(x) \/ WriteBlocks(x) \/ Flush(x)
    BY <2>1, WriteThroughKeeps, WriteBlocksKeeps, FlushKeeps
  <2>2. CASE ReadHandshake(x) \/ ReadKeepalive(x) \/ ReadTerm(x)
    BY <2>2, ReadHandshakeKeeps, ReadKeepaliveKeeps, ReadTermKeeps
  <2>3. CASE ReadSegment(x) \/ ReadAck(x) \/ PassUp(x)
    BY <2>3, ReadSegmentKeeps, ReadAckKeeps, PassUpKeeps
  <2>4. CASE ReadEnd(x)
    <3>1. Finish(x, "closed") /\ UNCHANGED <<scenario, agent, send, receive, wire, stored>>
      BY <2>4 DEF ReadEnd
    <3>2. "closed" \in {"closed", "failed"}
      OBVIOUS
    <3> QED
      BY <3>1, <3>2, FinishKeeps
  <2>5. CASE TakeTransfer(x) \/ Tick(x) \/ CloseConnection(x)
    BY <2>5, TakeTransferKeeps, TickKeeps, CloseConnectionKeeps
  <2> QED
    BY <1>1, <2>1, <2>2, <2>3, <2>4, <2>5 DEF SessionStep
<1>2. ASSUME NEW x \in Ends, LoseConnection(x)
      PROVE  TypeInv' /\ HandshakeInv' /\ Transferring'
  <2>1. Finish(x, "failed") /\ UNCHANGED <<scenario, agent, send, receive, wire, stored>>
    BY <1>2 DEF LoseConnection
  <2>2. "failed" \in {"closed", "failed"}
    OBVIOUS
  <2> QED
    BY <2>1, <2>2, FinishKeeps
<1>3. ASSUME NEW x \in Ends, AgentStep(x) \/ AgentClose(x)
      PROVE  TypeInv' /\ HandshakeInv' /\ Transferring'
  BY <1>3, AgentForwardKeeps, AgentReceiveKeeps, AgentEndsKeeps DEF AgentStep
<1>4. ASSUME UNCHANGED vars
      PROVE  TypeInv' /\ HandshakeInv' /\ Transferring'
  <2>1. UNCHANGED <<scenario, session, agent, send, receive, wire, stored>>
    BY <1>4 DEF vars
  <2>2. ChannelsInv'
    BY <2>1 DEF TypeInv, ChannelsInv
  <2>3. \A z \in Ends : Queue(z)' = Queue(z) /\ Received(z)' = Received(z)
    BY <2>1 DEF Queue, Received
  <2> QED
    BY <2>1, <2>2, <2>3, AgentKeeps
<1> QED
  BY <1>1, <1>2, <1>3, <1>4 DEF Next

\* The invariant holds in every scenario.
THEOREM Invariance == Spec => []IInv
<1>1. Init => IInv
  BY InitInv DEF IInv
<1>2. IInv /\ [Next]_vars => IInv'
  BY StepKeeps DEF IInv
<1> QED
  BY <1>1, <1>2, PTL DEF Spec

\* The invariant gives the types.
LEMMA TypesFollow ==
  ASSUME TypeInv
  PROVE  TypeOK
<1> SUFFICES ASSUME NEW x \in Ends, NEW s, s = session[x]
             PROVE  /\ s.state \in States /\ s.nested \in 0..MaxNested
                    /\ s.terminating \in BOOLEAN
                    /\ s.state \in {"SendXferSegments", "SendXferSegmentsAndAck"}
                         <=> s.tracker # Nothing
                    /\ s.state \in {"SendXferAck", "SendXferSegmentsAndAck"}
                         \/ s.passing # Nothing <=> s.ack # Nothing
                    /\ s.tracker # Nothing =>
                         0 <= s.tracker.acked /\ s.tracker.acked <= s.tracker.pos
                         /\ s.tracker.pos <= s.tracker.len
                    /\ s.request # 0 => s.results[s.request] = "none"
                    /\ s.receiving \in Transfers \cup {Nothing}
                    /\ s.passing \in Transfers \cup {Nothing}
                    /\ s.outcome \in {"running", "closed", "failed", "panicked"}
                    /\ Len(s.buffer) <= MaxBuffer
                    /\ Len(send[x]) <= SendCapacity /\ Len(receive[x]) <= ReceiveCapacity
  BY DEF TypeOK
<1>1. PICK b : b = Bundles(x)
  OBVIOUS
<1>2. s \in Sessions(b) /\ StateInv(s, b) /\ LimitsInv(s, x \in scenario.narrow)
  BY <1>1 DEF TypeInv, SessionInv
<1>3. /\ s.state \in States /\ s.nested \in Nat /\ s.terminating \in BOOLEAN
      /\ s.tracker \in Trackers \cup {Nothing}
      /\ s.receiving \in Transfers \cup {Nothing} /\ s.passing \in Transfers \cup {Nothing}
      /\ s.outcome \in {"running", "closed", "failed", "panicked"}
  BY <1>2 DEF Sessions
<1>4. s.nested \in 0..MaxNested /\ Len(s.buffer) <= MaxBuffer
  BY <1>2, <1>3, SessionAssumption DEF LimitsInv
<1>5. s.tracker # Nothing => 0 <= s.tracker.acked
  BY <1>3 DEF Trackers
<1>6. /\ s.state \in Segmenting <=> s.tracker # Nothing
      /\ (s.state \in Acking \/ s.passing # Nothing) <=> s.ack # Nothing
      /\ s.tracker # Nothing => /\ s.tracker.acked <= s.tracker.pos
                                /\ s.tracker.pos <= s.tracker.len
      /\ s.request # 0 => s.results[s.request] = "none"
  BY <1>2 DEF StateInv
<1>7. Len(send[x]) <= SendCapacity /\ Len(receive[x]) <= ReceiveCapacity
  BY DEF TypeInv, ChannelsInv
<1> QED
  BY <1>3, <1>4, <1>5, <1>6, <1>7 DEF Segmenting, Acking

\* The transfers that have arrived are the ones ExactlyOnce asks for.
LEMMA ArrivalsFollow ==
  ASSUME \A x \in Ends : DirectionInv(x)
  PROVE  ExactlyOnce
<1> SUFFICES ASSUME NEW x \in Ends
             PROVE  LET got == Received(Peer(x))
                        Number(i) == got[i].data[1][1]
                    IN  /\ \A i \in 1..Len(got) :
                             got[i].data = [k \in 1..scenario.bundles[x][Number(i)]
                                              |-> <<Number(i), k>>]
                        /\ \A i, j \in 1..Len(got) : i < j => Number(i) < Number(j)
                        /\ \A n \in DOMAIN session[x].results :
                             session[x].results[n] = "ok" =>
                               \E i \in 1..Len(got) : Number(i) = n
  BY Zenon DEF ExactlyOnce
<1>1. PICK r \in Nat : TransferInv(session[x], session[Peer(x)], Pipe(x), Pipe(Peer(x)),
                                   Received(Peer(x)), Bundles(x), Queue(x), r)
  BY DirectionIs
<1>2. ArrivedInv(session[x], Received(Peer(x)), Bundles(x), Queue(x))
  BY <1>1 DEF TransferInv
<1> QED
  BY <1>2 DEF ArrivedInv, Bundle, Units, Bundles

\* The state of every session, its contents and the channels have their types, in
\* every scenario.
THEOREM TypeCorrect == Spec => []TypeOK
<1>1. IInv => TypeOK
  BY TypesFollow DEF IInv
<1> QED
  BY <1>1, Invariance, PTL

\* Where no end has to acknowledge transfers through a socket that may block, the
\* assertion of decode_message that an acknowledgement is for the transfer that is
\* being sent never fails.
THEOREM NeverPanics == Spec => [](Unblocked => NoPanic)
<1>1. IInv => (Unblocked => NoPanic)
  BY DEF IInv, Transferring, RejectInv, NoPanic
<1> QED
  BY <1>1, Invariance, PTL

\* There, ends that both run this code reject a message only while terminating.
THEOREM NothingRejected == Spec => [](Unblocked => NoneRejected)
<1>1. IInv => (Unblocked => NoneRejected)
  BY DEF IInv, Transferring, RejectInv, NoneRejected
<1> QED
  BY <1>1, Invariance, PTL

\* There, each transfer arrives whole, once and in order, and a bundle is reported
\* as sent only when its transfer has arrived.
THEOREM ArrivesOnce == Spec => [](Unblocked => ExactlyOnce)
<1>1. IInv => (Unblocked => ExactlyOnce)
  BY ArrivalsFollow DEF IInv, Transferring
<1> QED
  BY <1>1, Invariance, PTL
===============================================================================
