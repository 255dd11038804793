-------------------------- MODULE AdbTransportProofs --------------------------
(***************************************************************************)
(* Proofs about AdbTransport, for any number of streams, buffer capacity    *)
(* and events.                                                              *)
(***************************************************************************)
EXTENDS AdbTransport, TLAPS

(* A stream that is ready and has not failed knows its peer, and open takes *)
(* it in that state only.                                                   *)
Known(s) == /\ st[s].ready /\ st[s].failErr = "none" => st[s].remote
            /\ st[s].op = "open" => st[s].ready /\ st[s].remote
Peers ==
  /\ \A s \in Stream : Known(s)
  /\ reaper.pc = "fail" => reaper.err \in {"ErrClosed", "ErrProtocol", "read"}

(* Every stream that open registered and still needs is in the table, or in *)
(* the teardown's hands, or has been woken.                                 *)
Cared(s) ==
  /\ st[s].op \in {"header", "payload", "select", "open"} =>
       s \in streams \/ s \in reaper.left \/ (st[s].ready /\ st[s].closed)
  /\ st[s].cl # "no" => st[s].op = "open" /\ st[s].closed
Woken ==
  /\ \A s \in Stream : Cared(s)
  /\ closed <=> reaper.pc # "none"
  /\ closed => streams = {}
  /\ reaper.pc # "fail" => reaper.left = {}

(* A queue q of messages from the device. *)
Sends(q, i, cmd, s) == q[i].cmd = cmd /\ q[i].s = s
Comes(q, cmd, s)    == \E i \in 1..Len(q) : Sends(q, i, cmd, s)
About(q, s)         == \E i \in 1..Len(q) : q[i].s = s
OneData(q, s)       == \A i, j \in 1..Len(q) : Sends(q, i, "WRTE", s) /\ Sends(q, j, "WRTE", s) => i = j
Numbered(q, s, n)   == \A i \in 1..Len(q) : Sends(q, i, "WRTE", s) => q[i].n = n
ClosedLast(q, s)    == \A i, j \in 1..Len(q) : Sends(q, i, "CLSE", s) /\ Sends(q, j, "WRTE", s) => j < i

(* A queue q of chunks to it. *)
OnWay(q, k) == \E i \in 1..Len(q) : q[i] = k
Once(q, k)  == \A i, j \in 1..Len(q) : q[i] = k /\ q[j] = k => i = j

InHand(cmd, s) == pump.pc = "run" /\ pump.m.cmd = cmd /\ pump.m.s = s
Acking(s) == pump.pc = "ack" /\ pump.m.s = s
InFlight(s) == Comes(toHost, "WRTE", s) \/ InHand("WRTE", s)
Early == {"idle", "header", "payload"}

(* Before open registers its stream, nobody has it. *)
Fresh(s) ==
  st[s].op = "idle" => /\ s \notin streams /\ s \notin reaper.left /\ st[s].failErr = "none"
                       /\ st[s].got = <<>> /\ st[s].writes = <<>>

(* What comes from the device is about streams that it was asked for. *)
Begun(s) ==
  /\ st[s].op \in Early => dev[s].state = "none"
  /\ dev[s].state = "none" => /\ dev[s].sent = 0 /\ ~st[s].remote /\ ~About(toHost, s)
                              /\ pump.pc \in {"run", "ack"} => pump.m.s # s

(* On its way to the device: one OPEN, the CLSE of a Close, and one OKAY    *)
(* for the data the device waits for.                                       *)
Out(s) ==
  /\ OnWay(toDevice, Payload("OPEN", s)) => dev[s].state = "none" /\ st[s].op \notin Early
  /\ OnWay(toDevice, Header("CLSE", s)) => st[s].cl # "no"
  /\ OnWay(toDevice, Header("OKAY", s)) => dev[s].waits /\ ~InFlight(s) /\ ~Acking(s)
  /\ Once(toDevice, Payload("OPEN", s)) /\ Once(toDevice, Header("OKAY", s))

(* One WRTE is outstanding: on its way, in the pump's hands, or on its way  *)
(* back as an OKAY.                                                         *)
OneOut(s) ==
  /\ OneData(toHost, s) /\ Numbered(toHost, s, dev[s].sent)
  /\ InHand("WRTE", s) => pump.m.n = dev[s].sent
  /\ InFlight(s) \/ Acking(s) => dev[s].waits
  /\ InHand("WRTE", s) \/ Acking(s) => ~Comes(toHost, "WRTE", s)

(* No data follow the device's CLSE. *)
Last(s) ==
  /\ Comes(toHost, "CLSE", s) \/ InHand("CLSE", s) => dev[s].state = "closed"
  /\ ClosedLast(toHost, s)
  /\ InHand("CLSE", s) => ~Comes(toHost, "WRTE", s)

(* got and writes are the data from 1 on; All: everything the device sent   *)
(* but what is in flight.                                                   *)
Counts(g, w) ==
  /\ \A i \in 1..Len(g) : g[i] = i
  /\ \A i \in 1..Len(w) : w[i] = Len(g) + i
InOrder(s) == Counts(st[s].got, st[s].writes)
All(s) == dev[s].sent = Len(st[s].got) + Len(st[s].writes) + IF InFlight(s) THEN 1 ELSE 0
Mild == {"none", "ErrStreamClosed"}
Ended(s) == st[s].closed /\ st[s].failErr \in Mild
AtEnd(s) == /\ dev[s].state = "closed" /\ Len(st[s].got) = dev[s].sent
            /\ Len(st[s].writes) = 0

(* While the host has not closed the stream, nothing is lost before the end *)
(* that a reader would take for EOF.                                        *)
Lossless(s) ==
  /\ s \in streams => st[s].failErr \in Mild
  /\ st[s].cl = "no" =>
       /\ InOrder(s)
       /\ s \in streams \/ InHand("WRTE", s) \/ InHand("CLSE", s) => All(s)
       /\ Ended(s) => All(s) /\ ~InFlight(s) /\ dev[s].state = "closed"
       /\ st[s].end = "EOF" => AtEnd(s)

Sound(s) == Fresh(s) /\ Begun(s) /\ Out(s) /\ OneOut(s) /\ Last(s) /\ Lossless(s)
Wire ==
  /\ \A s \in Stream : Sound(s)
  /\ pending.s # NoStream => HasPayload(pending)

TransportInv == TypeOK /\ Peers /\ Woken
StreamInv == TransportInv /\ Wire
-----------------------------------------------------------------------------
(* Nothing has happened. *)
LEMMA TypeInit == Init => TypeOK
<1> SUFFICES ASSUME Init PROVE TypeOK OBVIOUS
<1>1. NewStream \in StreamState /\ Len(NewStream.writes) = 0
  <2>1. <<>> \in Seq(Nat) /\ Len(<<>>) = 0 OBVIOUS
  <2> QED BY <2>1 DEF NewStream, StreamState, Error
<1>2. NoMsg \in Message BY DEF Message
<1>3. pending.s = NoStream BY DEF Init, Header
<1>4. st \in [Stream -> StreamState] /\ \A s \in Stream : Len(st[s].writes) <= BufferCap
  BY <1>1, AdbAssumption DEF Init
<1>5. dev \in [Stream -> DevState] BY DEF Init, DevState
<1>6. <<>> \in Seq(Chunk) /\ <<>> \in Seq(Message) OBVIOUS
<1>7. pump \in [pc: {"read", "run", "ack", "reap", "dead"}, m: Message]
      /\ (pump.pc \in {"run", "ack"} => pump.m # NoMsg)
  BY <1>2 DEF Init
<1>8. reaper \in [pc: {"none", "fail", "done"}, by: {"none", "pump", "user"}, err: Error,
                  left: SUBSET Stream]
  BY DEF Init, Error
<1> QED BY <1>3, <1>4, <1>5, <1>6, <1>7, <1>8 DEF Init, TypeOK

(* What a step on stream s may do to the muxStreams: it changes that one,   *)
(* which keeps its type.                                                    *)
Only(s) == st' \in [Stream -> StreamState] /\ \A r \in Stream : r # s => st'[r] = st[r]

(* The fields of a stream that decide who is told what. *)
Looks(x, op, ready, failErr, shut, remote, cl) ==
  /\ x.op = op /\ x.ready = ready /\ x.failErr = failErr
  /\ x.closed = shut /\ x.remote = remote /\ x.cl = cl
(* The fields that carry its data. *)
Data(x, got, writes, end) == x.got = got /\ x.writes = writes /\ x.end = end

(* An assignment to one stream, as a fact about all of them. *)
LEMMA OneStream ==
  ASSUME st \in [Stream -> StreamState], NEW s \in Stream, NEW x \in StreamState,
         st' = [st EXCEPT ![s] = x]
  PROVE  Only(s) /\ st'[s] = x
BY DEF Only

(* What open's registration does to its stream. *)
LEMMA OpenRegisterDoes ==
  ASSUME TypeOK, NEW s \in Stream, OpenRegister(s)
  PROVE  /\ Only(s) /\ Data(st'[s], st[s].got, st[s].writes, st[s].end)
         /\ IF closed
            THEN Looks(st'[s], "failed", st[s].ready, st[s].failErr, st[s].closed, st[s].remote, st[s].cl)
            ELSE Looks(st'[s], "header", st[s].ready, st[s].failErr, st[s].closed, st[s].remote, st[s].cl)
<1>1. st[s] \in StreamState /\ st \in [Stream -> StreamState] BY DEF TypeOK
<1>2. CASE closed
  <2> DEFINE x == [st[s] EXCEPT !.op = "failed", !.res = "ErrClosed"]
  <2>1. x \in StreamState /\ Data(x, st[s].got, st[s].writes, st[s].end)
        /\ Looks(x, "failed", st[s].ready, st[s].failErr, st[s].closed, st[s].remote, st[s].cl)
    BY <1>1 DEF StreamState, Error, Data, Looks
  <2>2. st' = [st EXCEPT ![s] = x] BY <1>1, <1>2 DEF OpenRegister
  <2> HIDE DEF x
  <2> QED BY <1>1, <1>2, <2>1, <2>2, OneStream
<1>3. CASE ~(closed)
  <2> DEFINE x == [st[s] EXCEPT !.op = "header"]
  <2>1. x \in StreamState /\ Data(x, st[s].got, st[s].writes, st[s].end)
        /\ Looks(x, "header", st[s].ready, st[s].failErr, st[s].closed, st[s].remote, st[s].cl)
    BY <1>1 DEF StreamState, Error, Data, Looks
  <2>2. st' = [st EXCEPT ![s] = x] BY <1>1, <1>3 DEF OpenRegister
  <2> HIDE DEF x
  <2> QED BY <1>1, <1>3, <2>1, <2>2, OneStream
<1> QED BY <1>2, <1>3

(* The header of OPEN, or the failure to write it. *)
LEMMA OpenHeaderDoes ==
  ASSUME TypeOK, NEW s \in Stream, OpenHeader(s)
  PROVE  /\ Only(s) /\ Data(st'[s], st[s].got, st[s].writes, st[s].end)
         /\ IF ~Up
            THEN Looks(st'[s], "failed", st[s].ready, st[s].failErr, st[s].closed, st[s].remote, st[s].cl)
            ELSE Looks(st'[s], "payload", st[s].ready, st[s].failErr, st[s].closed, st[s].remote, st[s].cl)
<1>1. st[s] \in StreamState /\ st \in [Stream -> StreamState] BY DEF TypeOK
<1>2. CASE ~Up
  <2> DEFINE x == [st[s] EXCEPT !.op = "failed", !.res = "write"]
  <2>1. x \in StreamState /\ Data(x, st[s].got, st[s].writes, st[s].end)
        /\ Looks(x, "failed", st[s].ready, st[s].failErr, st[s].closed, st[s].remote, st[s].cl)
    BY <1>1 DEF StreamState, Error, Data, Looks
  <2>2. st' = [st EXCEPT ![s] = x] BY <1>1, <1>2 DEF OpenHeader
  <2> HIDE DEF x
  <2> QED BY <1>1, <1>2, <2>1, <2>2, OneStream
<1>3. CASE ~(~Up)
  <2> DEFINE x == [st[s] EXCEPT !.op = "payload"]
  <2>1. x \in StreamState /\ Data(x, st[s].got, st[s].writes, st[s].end)
        /\ Looks(x, "payload", st[s].ready, st[s].failErr, st[s].closed, st[s].remote, st[s].cl)
    BY <1>1 DEF StreamState, Error, Data, Looks
  <2>2. st' = [st EXCEPT ![s] = x] BY <1>1, <1>3 DEF OpenHeader
  <2> HIDE DEF x
  <2> QED BY <1>1, <1>3, <2>1, <2>2, OneStream
<1> QED BY <1>2, <1>3

(* The payload of OPEN, or the failure to write it. *)
LEMMA OpenPayloadDoes ==
  ASSUME TypeOK, NEW s \in Stream, OpenPayload(s)
  PROVE  /\ Only(s) /\ Data(st'[s], st[s].got, st[s].writes, st[s].end)
         /\ IF ~Up
            THEN Looks(st'[s], "failed", st[s].ready, st[s].failErr, st[s].closed, st[s].remote, st[s].cl)
            ELSE Looks(st'[s], "select", st[s].ready, st[s].failErr, st[s].closed, st[s].remote, st[s].cl)
<1>1. st[s] \in StreamState /\ st \in [Stream -> StreamState] BY DEF TypeOK
<1>2. CASE ~Up
  <2> DEFINE x == [st[s] EXCEPT !.op = "failed", !.res = "write"]
  <2>1. x \in StreamState /\ Data(x, st[s].got, st[s].writes, st[s].end)
        /\ Looks(x, "failed", st[s].ready, st[s].failErr, st[s].closed, st[s].remote, st[s].cl)
    BY <1>1 DEF StreamState, Error, Data, Looks
  <2>2. st' = [st EXCEPT ![s] = x] BY <1>1, <1>2 DEF OpenPayload
  <2> HIDE DEF x
  <2> QED BY <1>1, <1>2, <2>1, <2>2, OneStream
<1>3. CASE ~(~Up)
  <2> DEFINE x == [st[s] EXCEPT !.op = "select"]
  <2>1. x \in StreamState /\ Data(x, st[s].got, st[s].writes, st[s].end)
        /\ Looks(x, "select", st[s].ready, st[s].failErr, st[s].closed, st[s].remote, st[s].cl)
    BY <1>1 DEF StreamState, Error, Data, Looks
  <2>2. st' = [st EXCEPT ![s] = x] BY <1>1, <1>3 DEF OpenPayload
  <2> HIDE DEF x
  <2> QED BY <1>1, <1>3, <2>1, <2>2, OneStream
<1> QED BY <1>2, <1>3

(* The end of open's wait. *)
LEMMA OpenReadyDoes ==
  ASSUME TypeOK, NEW s \in Stream, OpenReady(s)
  PROVE  /\ Only(s) /\ Data(st'[s], st[s].got, st[s].writes, st[s].end)
         /\ IF st[s].failErr # "none"
            THEN Looks(st'[s], "failed", st[s].ready, st[s].failErr, st[s].closed, st[s].remote, st[s].cl)
            ELSE Looks(st'[s], "open", st[s].ready, st[s].failErr, st[s].closed, st[s].remote, st[s].cl)
<1>1. st[s] \in StreamState /\ st \in [Stream -> StreamState] BY DEF TypeOK
<1>2. CASE st[s].failErr # "none"
  <2> DEFINE x == [st[s] EXCEPT !.op = "failed", !.res = st[s].failErr]
  <2>1. x \in StreamState /\ Data(x, st[s].got, st[s].writes, st[s].end)
        /\ Looks(x, "failed", st[s].ready, st[s].failErr, st[s].closed, st[s].remote, st[s].cl)
    BY <1>1 DEF StreamState, Error, Data, Looks
  <2>2. st' = [st EXCEPT ![s] = x] BY <1>1, <1>2 DEF OpenReady
  <2> HIDE DEF x
  <2> QED BY <1>1, <1>2, <2>1, <2>2, OneStream
<1>3. CASE ~(st[s].failErr # "none")
  <2> DEFINE x == [st[s] EXCEPT !.op = "open", !.res = "ok"]
  <2>1. x \in StreamState /\ Data(x, st[s].got, st[s].writes, st[s].end)
        /\ Looks(x, "open", st[s].ready, st[s].failErr, st[s].closed, st[s].remote, st[s].cl)
    BY <1>1 DEF StreamState, Error, Data, Looks
  <2>2. st' = [st EXCEPT ![s] = x] BY <1>1, <1>3 DEF OpenReady
  <2> HIDE DEF x
  <2> QED BY <1>1, <1>3, <2>1, <2>2, OneStream
<1> QED BY <1>2, <1>3

(* The end of open's context. *)
LEMMA OpenCancelledDoes ==
  ASSUME TypeOK, NEW s \in Stream, OpenCancelled(s)
  PROVE  /\ Only(s) /\ Data(st'[s], st[s].got, st[s].writes, st[s].end)
         /\ Looks(st'[s], "failed", st[s].ready, st[s].failErr, st[s].closed, st[s].remote, st[s].cl)
<1>1. st[s] \in StreamState /\ st \in [Stream -> StreamState] BY DEF TypeOK
<1> DEFINE x == [st[s] EXCEPT !.op = "failed", !.res = "ctx"]
<1>2. x \in StreamState /\ Data(x, st[s].got, st[s].writes, st[s].end)
      /\ Looks(x, "failed", st[s].ready, st[s].failErr, st[s].closed, st[s].remote, st[s].cl)
  BY <1>1 DEF StreamState, Error, Data, Looks
<1>3. st' = [st EXCEPT ![s] = x] BY <1>1 DEF OpenCancelled
<1> HIDE DEF x
<1> QED BY <1>1, <1>2, <1>3, OneStream

(* The caller's context. *)
LEMMA CancelDoes ==
  ASSUME TypeOK, NEW s \in Stream, Cancel(s)
  PROVE  /\ Only(s) /\ Data(st'[s], st[s].got, st[s].writes, st[s].end)
         /\ Looks(st'[s], st[s].op, st[s].ready, st[s].failErr, st[s].closed, st[s].remote, st[s].cl)
<1>1. st[s] \in StreamState /\ st \in [Stream -> StreamState] BY DEF TypeOK
<1> DEFINE x == [st[s] EXCEPT !.ctx = TRUE]
<1>2. x \in StreamState /\ Data(x, st[s].got, st[s].writes, st[s].end)
      /\ Looks(x, st[s].op, st[s].ready, st[s].failErr, st[s].closed, st[s].remote, st[s].cl)
  BY <1>1 DEF StreamState, Error, Data, Looks
<1>3. st' = [st EXCEPT ![s] = x] BY <1>1 DEF Cancel
<1> HIDE DEF x
<1> QED BY <1>1, <1>2, <1>3, OneStream

(* Write's header. *)
LEMMA WriteHeaderDoes ==
  ASSUME TypeOK, NEW s \in Stream, WriteHeader(s)
  PROVE  /\ Only(s) /\ Data(st'[s], st[s].got, st[s].writes, st[s].end)
         /\ Looks(st'[s], st[s].op, st[s].ready, st[s].failErr, st[s].closed, st[s].remote, st[s].cl)
<1>1. st[s] \in StreamState /\ st \in [Stream -> StreamState] BY DEF TypeOK
<1>0. PICK w \in Nat : w = st[s].wrote + 1
  <2>1. st[s].wrote \in Nat BY <1>1 DEF StreamState
  <2> QED BY <2>1
<1> DEFINE x == [st[s] EXCEPT !.wr = "payload", !.wrote = w]
<1>2. x \in StreamState /\ Data(x, st[s].got, st[s].writes, st[s].end)
      /\ Looks(x, st[s].op, st[s].ready, st[s].failErr, st[s].closed, st[s].remote, st[s].cl)
  BY <1>1 DEF StreamState, Error, Data, Looks
<1>3. st' = [st EXCEPT ![s] = x] BY <1>0, <1>1 DEF WriteHeader
<1> HIDE DEF x
<1> QED BY <1>1, <1>2, <1>3, OneStream

(* Write's payload. *)
LEMMA WritePayloadDoes ==
  ASSUME TypeOK, NEW s \in Stream, WritePayload(s)
  PROVE  /\ Only(s) /\ Data(st'[s], st[s].got, st[s].writes, st[s].end)
         /\ Looks(st'[s], st[s].op, st[s].ready, st[s].failErr, st[s].closed, st[s].remote, st[s].cl)
<1>1. st[s] \in StreamState /\ st \in [Stream -> StreamState] BY DEF TypeOK
<1> DEFINE x == [st[s] EXCEPT !.wr = "idle"]
<1>2. x \in StreamState /\ Data(x, st[s].got, st[s].writes, st[s].end)
      /\ Looks(x, st[s].op, st[s].ready, st[s].failErr, st[s].closed, st[s].remote, st[s].cl)
  BY <1>1 DEF StreamState, Error, Data, Looks
<1>3. st' = [st EXCEPT ![s] = x] BY <1>1 DEF WritePayload
<1> HIDE DEF x
<1> QED BY <1>1, <1>2, <1>3, OneStream

(* The first half of Close. *)
LEMMA CloseSendDoes ==
  ASSUME TypeOK, NEW s \in Stream, CloseSend(s)
  PROVE  /\ Only(s) /\ Data(st'[s], st[s].got, st[s].writes, st[s].end)
         /\ Looks(st'[s], st[s].op, st[s].ready, st[s].failErr, TRUE, st[s].remote, "remove")
<1>1. st[s] \in StreamState /\ st \in [Stream -> StreamState] BY DEF TypeOK
<1> DEFINE x == [st[s] EXCEPT !.cl = "remove", !.closed = TRUE]
<1>2. x \in StreamState /\ Data(x, st[s].got, st[s].writes, st[s].end)
      /\ Looks(x, st[s].op, st[s].ready, st[s].failErr, TRUE, st[s].remote, "remove")
  BY <1>1 DEF StreamState, Error, Data, Looks
<1>3. st' = [st EXCEPT ![s] = x] BY <1>1 DEF CloseSend
<1> HIDE DEF x
<1> QED BY <1>1, <1>2, <1>3, OneStream

(* The second half of Close. *)
LEMMA CloseRemoveDoes ==
  ASSUME TypeOK, NEW s \in Stream, CloseRemove(s)
  PROVE  /\ Only(s) /\ Data(st'[s], st[s].got, st[s].writes, st[s].end)
         /\ Looks(st'[s], st[s].op, st[s].ready, st[s].failErr, st[s].closed, st[s].remote, "done")
<1>1. st[s] \in StreamState /\ st \in [Stream -> StreamState] BY DEF TypeOK
<1> DEFINE x == [st[s] EXCEPT !.cl = "done"]
<1>2. x \in StreamState /\ Data(x, st[s].got, st[s].writes, st[s].end)
      /\ Looks(x, st[s].op, st[s].ready, st[s].failErr, st[s].closed, st[s].remote, "done")
  BY <1>1 DEF StreamState, Error, Data, Looks
<1>3. st' = [st EXCEPT ![s] = x] BY <1>1 DEF CloseRemove
<1> HIDE DEF x
<1> QED BY <1>1, <1>2, <1>3, OneStream

(* muxStream.fail. *)
LEMMA TeardownFailDoes ==
  ASSUME TypeOK, NEW s \in Stream, TeardownFail(s)
  PROVE  /\ Only(s) /\ Data(st'[s], st[s].got, st[s].writes, st[s].end)
         /\ Looks(st'[s], st[s].op, TRUE, reaper.err, TRUE, st[s].remote, st[s].cl)
<1>1. st[s] \in StreamState /\ st \in [Stream -> StreamState] BY DEF TypeOK
<1>0. PICK e \in Error : e = reaper.err BY DEF TypeOK
<1> DEFINE x == [st[s] EXCEPT !.failErr = e, !.closed = TRUE, !.ready = TRUE]
<1>2. x \in StreamState /\ Data(x, st[s].got, st[s].writes, st[s].end)
      /\ Looks(x, st[s].op, TRUE, e, TRUE, st[s].remote, st[s].cl)
  BY <1>1 DEF StreamState, Data, Looks
<1>3. st' = [st EXCEPT ![s] = x] BY <1>0, <1>1 DEF TeardownFail
<1> HIDE DEF x
<1> QED BY <1>0, <1>1, <1>2, <1>3, OneStream

(* Read, with data in the buffer or at the end. *)
LEMMA ReadDoes ==
  ASSUME TypeOK, NEW s \in Stream, Read(s)
  PROVE  /\ Only(s)
         /\ Looks(st'[s], st[s].op, st[s].ready, st[s].failErr, st[s].closed, st[s].remote, st[s].cl)
         /\ \/ /\ st[s].writes # <<>>
               /\ Data(st'[s], Append(st[s].got, Head(st[s].writes)), Tail(st[s].writes), st[s].end)
            \/ /\ st[s].writes = <<>> /\ st[s].closed
               /\ \E e \in {"EOF"} \cup Error :
                    /\ Data(st'[s], st[s].got, st[s].writes, e)
                    /\ e = "EOF" => st[s].failErr \in {"none", "ErrStreamClosed"}
<1>1. st[s] \in StreamState /\ st \in [Stream -> StreamState] BY DEF TypeOK
<1>2. st[s].got \in Seq(Nat) /\ st[s].writes \in Seq(Nat) /\ st[s].failErr \in Error
  BY <1>1 DEF StreamState
<1>3. CASE /\ st[s].writes # <<>>
           /\ st' = [st EXCEPT ![s].got = Append(@, Head(st[s].writes)), ![s].writes = Tail(@)]
  <2>0. Head(st[s].writes) \in Nat /\ Tail(st[s].writes) \in Seq(Nat)
    <3>1. st[s].writes # <<>> BY <1>3
    <3> QED BY <1>2, <3>1
  <2>1. PICK q \in Seq(Nat) : q = Append(st[s].got, Head(st[s].writes))
    <3>1. Append(st[s].got, Head(st[s].writes)) \in Seq(Nat) BY <1>2, <2>0
    <3> QED BY <3>1, Zenon
  <2>2. PICK w \in Seq(Nat) : w = Tail(st[s].writes) BY <2>0
  <2> DEFINE x == [st[s] EXCEPT !.got = q, !.writes = w]
  <2>3. x \in StreamState /\ Data(x, q, w, st[s].end)
        /\ Looks(x, st[s].op, st[s].ready, st[s].failErr, st[s].closed, st[s].remote, st[s].cl)
    BY <1>1 DEF StreamState, Data, Looks
  <2>4. st' = [st EXCEPT ![s] = x] BY <1>1, <1>3, <2>1, <2>2
  <2> HIDE DEF x
  <2>5. Only(s) /\ st'[s] = x BY <1>1, <2>3, <2>4, OneStream
  <2> QED BY <1>3, <2>1, <2>2, <2>3, <2>5
<1>4. CASE /\ st[s].writes = <<>> /\ st[s].closed
           /\ st' = [st EXCEPT ![s].end = IF st[s].failErr \in {"none", "ErrStreamClosed"}
                                          THEN "EOF" ELSE st[s].failErr]
  <2>1. PICK e \in {"EOF"} \cup Error :
          e = IF st[s].failErr \in {"none", "ErrStreamClosed"} THEN "EOF" ELSE st[s].failErr
    BY <1>2
  <2> DEFINE x == [st[s] EXCEPT !.end = e]
  <2>2. x \in StreamState /\ Data(x, st[s].got, st[s].writes, e)
        /\ Looks(x, st[s].op, st[s].ready, st[s].failErr, st[s].closed, st[s].remote, st[s].cl)
    BY <1>1 DEF StreamState, Data, Looks
  <2>3. st' = [st EXCEPT ![s] = x] BY <1>4, <2>1
  <2> HIDE DEF x
  <2>4. Only(s) /\ st'[s] = x BY <1>1, <2>2, <2>3, OneStream
  <2>5. e = "EOF" => st[s].failErr \in {"none", "ErrStreamClosed"} BY <1>2, <2>1 DEF Error
  <2> QED BY <1>4, <2>2, <2>4, <2>5
<1> QED BY <1>3, <1>4 DEF Read

(* dispatch of an OKAY, of data and of a CLSE to the stream of the message. *)
LEMMA onReadyDoes ==
  ASSUME TypeOK, NEW s \in Stream, onReady(s)
  PROVE  /\ Only(s) /\ Data(st'[s], st[s].got, st[s].writes, st[s].end)
         /\ Looks(st'[s], st[s].op, TRUE, st[s].failErr, st[s].closed, TRUE, st[s].cl)
<1>1. st[s] \in StreamState /\ st \in [Stream -> StreamState] BY DEF TypeOK
<1> DEFINE x == [st[s] EXCEPT !.remote = TRUE, !.ready = TRUE]
<1>2. x \in StreamState /\ Data(x, st[s].got, st[s].writes, st[s].end)
      /\ Looks(x, st[s].op, TRUE, st[s].failErr, st[s].closed, TRUE, st[s].cl)
  BY <1>1 DEF StreamState, Data, Looks
<1>3. st' = [st EXCEPT ![s] = x] BY <1>1 DEF onReady
<1> HIDE DEF x
<1> QED BY <1>1, <1>2, <1>3, OneStream

(* dispatch of data: into the buffer, or dropped on a closed stream. *)
LEMMA onWriteDoes ==
  ASSUME TypeOK, NEW s \in Stream, NEW n \in Nat, onWrite(s, n)
  PROVE  /\ Only(s)
         /\ Looks(st'[s], st[s].op, st[s].ready, st[s].failErr, st[s].closed, st[s].remote, st[s].cl)
         /\ \/ /\ Len(st[s].writes) < BufferCap
               /\ Data(st'[s], st[s].got, Append(st[s].writes, n), st[s].end)
            \/ st[s].closed /\ Data(st'[s], st[s].got, st[s].writes, st[s].end)
<1>1. st[s] \in StreamState /\ st \in [Stream -> StreamState] BY DEF TypeOK
<1>2. CASE Len(st[s].writes) < BufferCap /\ st' = [st EXCEPT ![s].writes = Append(@, n)]
  <2>1. st[s].writes \in Seq(Nat) BY <1>1 DEF StreamState
  <2>2. PICK w \in Seq(Nat) : w = Append(st[s].writes, n)
    <3>1. Append(st[s].writes, n) \in Seq(Nat) BY <2>1
    <3> QED BY <3>1, Zenon
  <2> DEFINE x == [st[s] EXCEPT !.writes = w]
  <2>3. x \in StreamState /\ Data(x, st[s].got, w, st[s].end)
        /\ Looks(x, st[s].op, st[s].ready, st[s].failErr, st[s].closed, st[s].remote, st[s].cl)
    BY <1>1 DEF StreamState, Data, Looks
  <2>4. st' = [st EXCEPT ![s] = x] BY <1>2, <2>2
  <2> HIDE DEF x
  <2>5. Only(s) /\ st'[s] = x BY <1>1, <2>3, <2>4, OneStream
  <2> QED BY <1>2, <2>2, <2>3, <2>5
<1>3. CASE st[s].closed /\ UNCHANGED st
  BY <1>1, <1>3 DEF Only, Looks, Data
<1> QED BY <1>2, <1>3 DEF onWrite

(* dispatch of a CLSE. *)
LEMMA onCloseDoes ==
  ASSUME TypeOK, NEW s \in Stream, onClose(s)
  PROVE  /\ Only(s) /\ Data(st'[s], st[s].got, st[s].writes, st[s].end)
         /\ \E e \in Error :
              /\ Looks(st'[s], st[s].op, TRUE, e, TRUE, st[s].remote, st[s].cl)
              /\ IF st[s].ready THEN e = st[s].failErr ELSE e = "ErrStreamClosed"
<1>1. st[s] \in StreamState /\ st \in [Stream -> StreamState] BY DEF TypeOK
<1>2. st[s].failErr \in Error BY <1>1 DEF StreamState
<1>3. PICK e \in Error : e = IF st[s].ready THEN st[s].failErr ELSE "ErrStreamClosed"
  BY <1>2 DEF Error
<1> DEFINE x == [st[s] EXCEPT !.closed = TRUE, !.ready = TRUE, !.failErr = e]
<1>4. x \in StreamState /\ Data(x, st[s].got, st[s].writes, st[s].end)
      /\ Looks(x, st[s].op, TRUE, e, TRUE, st[s].remote, st[s].cl)
  BY <1>1 DEF StreamState, Data, Looks
<1>5. st' = [st EXCEPT ![s] = x]
  <2>1. CASE st[s].ready BY <1>1, <1>3, <2>1 DEF onClose
  <2>2. CASE ~st[s].ready BY <1>1, <1>3, <2>2 DEF onClose
  <2> QED BY <2>1, <2>2
<1> HIDE DEF x
<1>6. Only(s) /\ st'[s] = x BY <1>1, <1>4, <1>5, OneStream
<1> QED BY <1>3, <1>4, <1>6
-----------------------------------------------------------------------------
(* No buffer overflows. *)
Room == \A s \in Stream : Len(st[s].writes) <= BufferCap

(* A step on a stream that adds no data keeps the types of all. *)
LEMMA OnlyType ==
  ASSUME TypeOK, NEW s \in Stream, Only(s), Len(st'[s].writes) <= BufferCap
  PROVE  st' \in [Stream -> StreamState] /\ Room'
BY DEF TypeOK, Only, Room

(* What goes to the device. *)
LEMMA SentType ==
  ASSUME TypeOK, NEW chunk \in Chunk
  PROVE  Sent(chunk) \in Seq(Chunk)
BY DEF TypeOK, Sent

(* What the host and the device write is well-formed. *)
LEMMA ChunkTypes ==
  ASSUME NEW s \in Stream
  PROVE  /\ \A cmd \in {"OPEN", "OKAY", "WRTE", "CLSE"} :
              Header(cmd, s) \in Chunk /\ Payload(cmd, s) \in Chunk
         /\ \A cmd \in {"OKAY", "WRTE", "CLSE"}, n \in Nat : Msg(cmd, s, n) \in Message
BY DEF Chunk, Header, Payload, Msg, Message

(* The registration and the removal of streams. *)
LEMMA OpenType ==
  ASSUME TypeOK, NEW s \in Stream, OpenRegister(s) \/ OpenStep(s)
  PROVE  TypeOK'
<1>1. st' \in [Stream -> StreamState] /\ Room'
  <2>1. Only(s) /\ st'[s].writes = st[s].writes
    BY OpenRegisterDoes, OpenHeaderDoes, OpenPayloadDoes, OpenReadyDoes, OpenCancelledDoes
       DEF OpenStep, Data
  <2> QED BY <2>1, OnlyType DEF TypeOK
<1>2. Header("OPEN", s) \in Chunk /\ Payload("OPEN", s) \in Chunk BY ChunkTypes
<1>3. toDevice' \in Seq(Chunk)
  BY <1>2, SentType DEF TypeOK, OpenRegister, OpenStep, OpenHeader, OpenPayload, OpenReady,
                        OpenCancelled
<1>4. streams' \subseteq Stream /\ writeMu' \in Stream \cup {NoStream}
  BY DEF TypeOK, OpenRegister, OpenStep, OpenHeader, OpenPayload, OpenReady, OpenCancelled
<1>5. UNCHANGED <<closed, pump, reaper, conn, toHost, dev, pending>>
  BY DEF OpenRegister, OpenStep, OpenHeader, OpenPayload, OpenReady, OpenCancelled, external
<1> QED BY <1>1, <1>3, <1>4, <1>5 DEF TypeOK, Room

(* The caller's context, Read, Write and Close. *)
LEMMA UseType ==
  ASSUME TypeOK, NEW s \in Stream,
         Cancel(s) \/ Read(s) \/ WriteStep(s) \/ CloseSend(s) \/ CloseRemove(s)
  PROVE  TypeOK'
<1>1. st' \in [Stream -> StreamState] /\ Room'
  <2>1. CASE Read(s)
    <3>1. st[s].writes \in Seq(Nat) /\ Len(st[s].writes) <= BufferCap
      BY DEF TypeOK, StreamState
    <3>2. Only(s) /\ (st'[s].writes = st[s].writes
                      \/ (st[s].writes # <<>> /\ st'[s].writes = Tail(st[s].writes)))
      BY <2>1, ReadDoes DEF Data
    <3>3. st[s].writes # <<>> => Len(Tail(st[s].writes)) = Len(st[s].writes) - 1 BY <3>1
    <3>4. Len(st[s].writes) \in Nat BY <3>1
    <3>5. Len(st'[s].writes) = Len(st[s].writes) \/ Len(st'[s].writes) = Len(st[s].writes) - 1
      BY <3>2, <3>3, Zenon
    <3>6. Len(st'[s].writes) <= BufferCap BY <3>1, <3>4, <3>5, AdbAssumption
    <3> QED BY <3>2, <3>6, OnlyType
  <2>2. CASE Cancel(s) \/ WriteStep(s) \/ CloseSend(s) \/ CloseRemove(s)
    <3>1. Only(s) /\ st'[s].writes = st[s].writes
      BY <2>2, CancelDoes, WriteHeaderDoes, WritePayloadDoes, CloseSendDoes, CloseRemoveDoes
         DEF WriteStep, Data
    <3> QED BY <3>1, OnlyType DEF TypeOK
  <2> QED BY <2>1, <2>2
<1>2. /\ Header("WRTE", s) \in Chunk /\ Payload("WRTE", s) \in Chunk
      /\ Header("CLSE", s) \in Chunk
  BY ChunkTypes
<1>3. toDevice' \in Seq(Chunk)
  BY <1>2, SentType DEF TypeOK, Cancel, Read, WriteStep, WriteHeader, WritePayload, CloseSend,
                        CloseRemove
<1>4. streams' \subseteq Stream
  BY DEF TypeOK, Cancel, Read, WriteStep, WriteHeader, WritePayload, CloseSend, CloseRemove
<1>5. UNCHANGED <<closed, writeMu, pump, reaper, conn, toHost, dev, pending>>
  BY DEF Cancel, Read, WriteStep, WriteHeader, WritePayload, CloseSend, CloseRemove, external
<1> QED BY <1>1, <1>3, <1>4, <1>5 DEF TypeOK, Room

(* teardown, begun by the pump or by Device.Close. *)
ReaperType ==
  [pc: {"none", "fail", "done"}, by: {"none", "pump", "user"}, err: Error, left: SUBSET Stream]

(* A teardown begins with the streams of the table. *)
LEMMA BeginType ==
  ASSUME TypeOK, NEW by \in {"pump", "user"}, NEW err \in Error, TeardownBegin(by, err)
  PROVE  closed' \in BOOLEAN /\ streams' \subseteq Stream /\ reaper' \in ReaperType
BY DEF TypeOK, TeardownBegin, ReaperType

(* teardown, from either caller. *)
LEMMA TeardownType ==
  ASSUME TypeOK, Shut \/ TeardownEnd \/ \E s \in Stream : TeardownFail(s)
  PROVE  TypeOK'
<1>1. CASE Shut
  <2>1. "ErrClosed" \in Error BY DEF Error
  <2>2. closed' \in BOOLEAN /\ streams' \subseteq Stream /\ reaper' \in ReaperType
    BY <1>1, <2>1, BeginType DEF Shut
  <2> QED BY <1>1, <2>2 DEF TypeOK, Shut, ReaperType, external
<1>2. CASE TeardownEnd
  <2>0. reaper \in ReaperType BY DEF TypeOK, ReaperType
  <2>1. reaper' \in ReaperType /\ conn' = "shut"
    <3>1. [reaper EXCEPT !.pc = "done"] \in ReaperType BY <2>0 DEF ReaperType
    <3> QED BY <1>2, <3>1 DEF TeardownEnd
  <2>2. /\ pump' \in [pc: {"read", "run", "ack", "reap", "dead"}, m: Message]
        /\ pump'.pc \in {"run", "ack"} => pump'.m # NoMsg
    BY <1>2 DEF TypeOK, TeardownEnd
  <2> QED BY <1>2, <2>1, <2>2 DEF TypeOK, TeardownEnd, ReaperType, external
<1>3. ASSUME NEW s \in Stream, TeardownFail(s) PROVE TypeOK'
  <2>1. Only(s) /\ st'[s].writes = st[s].writes BY <1>3, TeardownFailDoes DEF Data
  <2>2. st' \in [Stream -> StreamState] /\ Room' BY <2>1, OnlyType DEF TypeOK
  <2>3. reaper' \in ReaperType BY <1>3 DEF TypeOK, TeardownFail, ReaperType
  <2> QED BY <1>3, <2>2, <2>3 DEF TypeOK, TeardownFail, ReaperType, Room, external
<1> QED BY <1>1, <1>2, <1>3

(* readPump: reading, dispatching, acknowledging and giving up. *)
PumpType == [pc: {"read", "run", "ack", "reap", "dead"}, m: Message]

(* The pump gives up, and tears down unless that was done. *)
LEMMA StopsType ==
  ASSUME TypeOK, NEW err \in Error, PumpStops(err)
  PROVE  /\ pump' \in PumpType /\ pump'.pc \in {"reap", "dead"}
         /\ closed' \in BOOLEAN /\ streams' \subseteq Stream /\ reaper' \in ReaperType
<1>1. pump \in PumpType /\ reaper \in ReaperType BY DEF TypeOK, PumpType, ReaperType
<1>2. CASE closed
  <2>1. pump' \in PumpType /\ pump'.pc = "dead" BY <1>1, <1>2 DEF PumpStops, PumpType
  <2> QED BY <1>1, <1>2, <2>1 DEF PumpStops, TypeOK
<1>3. CASE ~closed
  <2>1. pump' \in PumpType /\ pump'.pc = "reap" BY <1>1, <1>3 DEF PumpStops, PumpType
  <2>2. TeardownBegin("pump", err) BY <1>3 DEF PumpStops
  <2> QED BY <2>1, <2>2, BeginType
<1> QED BY <1>2, <1>3 DEF TypeOK

(* A message from the device. *)
LEMMA HeadType ==
  ASSUME TypeOK, toHost # <<>>
  PROVE  /\ Head(toHost) \in Message /\ Tail(toHost) \in Seq(Message)
         /\ Head(toHost).cmd \in {"OKAY", "WRTE", "CLSE"} =>
              Head(toHost).s \in Stream /\ Head(toHost).n \in Nat /\ Head(toHost) # NoMsg
<1>1. Head(toHost) \in Message /\ Tail(toHost) \in Seq(Message) BY DEF TypeOK
<1>2. ASSUME NEW m \in Message, m.cmd \in {"OKAY", "WRTE", "CLSE"}
      PROVE  m.s \in Stream /\ m.n \in Nat /\ m # NoMsg
  BY <1>2 DEF Message, NoMsg
<1> QED BY <1>1, <1>2

(* The message in the pump's hands has a stream. *)
LEMMA HandType ==
  ASSUME TypeOK, pump.pc \in {"run", "ack"}
  PROVE  pump.m.s \in Stream /\ pump.m.n \in Nat /\ pump.m.cmd \in {"OKAY", "WRTE", "CLSE"}
<1>1. pump.m \in Message /\ pump.m # NoMsg BY DEF TypeOK
<1>2. ASSUME NEW m \in Message, m # NoMsg
      PROVE  m.s \in Stream /\ m.n \in Nat /\ m.cmd \in {"OKAY", "WRTE", "CLSE"}
  BY <1>2 DEF Message
<1> QED BY <1>1, <1>2

(* The three outcomes of a read: stop, dispatch, pass over. *)
LEMMA PumpReadDoes ==
  ASSUME TypeOK, PumpRead
  PROVE  LET m == Head(toHost) IN
           \/ m.cmd \notin {"OKAY", "WRTE", "CLSE"} /\ PumpStops("ErrProtocol")
           \/ /\ m.cmd \in {"OKAY", "WRTE", "CLSE"} /\ m.s \in streams
              /\ pump' = [pc |-> "run", m |-> m] /\ UNCHANGED <<streams, closed, reaper>>
           \/ /\ m.cmd \in {"OKAY", "WRTE", "CLSE"} /\ m.s \notin streams
              /\ UNCHANGED <<pump, streams, closed, reaper>>
BY DEF PumpRead

(* The three messages that are dispatched. *)
LEMMA PumpRunDoes ==
  ASSUME TypeOK, PumpRun
  PROVE  LET s == pump.m.s IN
           \/ pump.m.cmd = "OKAY" /\ onReady(s) /\ pump' = [pump EXCEPT !.pc = "read"]
           \/ pump.m.cmd = "WRTE" /\ onWrite(s, pump.m.n) /\ pump' = [pump EXCEPT !.pc = "ack"]
           \/ pump.m.cmd = "CLSE" /\ onClose(s) /\ pump' = [pump EXCEPT !.pc = "read"]
<1>1. pump.m.cmd \in {"OKAY", "WRTE", "CLSE"} BY HandType DEF PumpRun
<1>2. CASE pump.m.cmd = "OKAY" BY <1>2 DEF PumpRun
<1>3. CASE pump.m.cmd = "WRTE" BY <1>3 DEF PumpRun
<1>4. CASE pump.m.cmd = "CLSE" BY <1>4 DEF PumpRun
<1> QED BY <1>1, <1>2, <1>3, <1>4

(* The pump's steps keep the types. *)
LEMMA PumpTypes ==
  ASSUME TypeOK, PumpStep
  PROVE  TypeOK'
<1>0. pump \in PumpType /\ reaper \in ReaperType /\ "read" \in Error /\ "ErrProtocol" \in Error
  BY DEF TypeOK, PumpType, ReaperType, Error
<1>1. CASE PumpError
  <2>1. PumpStops("read") BY <1>1 DEF PumpError
  <2>2. /\ pump' \in PumpType /\ pump'.pc \in {"reap", "dead"}
        /\ closed' \in BOOLEAN /\ streams' \subseteq Stream /\ reaper' \in ReaperType
    BY <1>0, <2>1, StopsType
  <2> QED BY <1>1, <2>2 DEF TypeOK, PumpError, PumpType, ReaperType, external
<1>2. CASE PumpRead
  <2>1. toHost' \in Seq(Message) BY <1>2, HeadType DEF PumpRead
  <2>2. /\ pump' \in PumpType /\ (pump'.pc \in {"run", "ack"} => pump'.m # NoMsg)
        /\ closed' \in BOOLEAN /\ streams' \subseteq Stream /\ reaper' \in ReaperType
    <3>1. CASE PumpStops("ErrProtocol") BY <1>0, <3>1, StopsType
    <3>2. CASE /\ Head(toHost).cmd \in {"OKAY", "WRTE", "CLSE"}
               /\ pump' = [pc |-> "run", m |-> Head(toHost)]
               /\ UNCHANGED <<streams, closed, reaper>>
      <4>1. Head(toHost) \in Message /\ Head(toHost) # NoMsg BY <1>2, <3>2, HeadType DEF PumpRead
      <4> QED BY <1>0, <3>2, <4>1 DEF TypeOK, PumpType
    <3>3. CASE UNCHANGED <<pump, streams, closed, reaper>> BY <1>0, <3>3 DEF TypeOK
    <3> QED BY <1>2, <3>1, <3>2, <3>3, PumpReadDoes
  <2> QED BY <1>2, <2>1, <2>2 DEF TypeOK, PumpRead, PumpType, ReaperType, external
<1>3. CASE PumpRun
  <2>0. pump.m.s \in Stream /\ pump.m.n \in Nat /\ pump.m # NoMsg
    BY <1>3, HandType DEF PumpRun, TypeOK
  <2>1. pump' \in PumpType /\ pump'.m = pump.m BY <1>0, <1>3 DEF PumpRun, PumpType
  <2>2. st' \in [Stream -> StreamState] /\ Room'
    <3>1. PICK s \in Stream, n \in Nat : s = pump.m.s /\ n = pump.m.n BY <2>0
    <3>2. Len(st[s].writes) <= BufferCap /\ st[s].writes \in Seq(Nat) BY DEF TypeOK, StreamState
    <3>3. CASE onReady(s) \/ onClose(s)
      <4>1. Only(s) /\ st'[s].writes = st[s].writes BY <3>3, onReadyDoes, onCloseDoes DEF Data
      <4> QED BY <3>2, <4>1, OnlyType
    <3>4. CASE onWrite(s, n)
      <4>1. /\ Only(s)
            /\ \/ Len(st[s].writes) < BufferCap /\ st'[s].writes = Append(st[s].writes, n)
               \/ st'[s].writes = st[s].writes
        BY <3>4, onWriteDoes DEF Data
      <4>2. Len(Append(st[s].writes, n)) = Len(st[s].writes) + 1 /\ Len(st[s].writes) \in Nat BY <3>2
      <4>3. Len(st'[s].writes) <= BufferCap BY <3>2, <4>1, <4>2, AdbAssumption
      <4> QED BY <4>1, <4>3, OnlyType
    <3> QED BY <1>3, <3>1, <3>3, <3>4, PumpRunDoes
  <2> QED BY <1>3, <2>0, <2>1, <2>2 DEF TypeOK, PumpRun, PumpType, Room, external
<1>4. CASE PumpAck
  <2>0. Header("OKAY", pump.m.s) \in Chunk BY <1>4, HandType, ChunkTypes DEF PumpAck
  <2>1. pump' \in PumpType /\ pump'.pc = "read" BY <1>0, <1>4 DEF PumpAck, PumpType
  <2>2. toDevice' \in Seq(Chunk) BY <1>4, <2>0, SentType DEF PumpAck
  <2> QED BY <1>4, <2>1, <2>2 DEF TypeOK, PumpAck, PumpType, external
<1> QED BY <1>1, <1>2, <1>3, <1>4 DEF PumpStep

(* The device. *)
LEMMA DeviceTypes ==
  ASSUME TypeOK,
         DeviceReads \/ DeviceOther \/ DeviceDrops
           \/ \E s \in Stream : DeviceWrites(s) \/ DeviceCloses(s)
  PROVE  TypeOK'
<1>0. toHost \in Seq(Message) /\ toDevice \in Seq(Chunk) /\ dev \in [Stream -> DevState]
  BY DEF TypeOK
<1>1. ASSUME NEW cmd \in {"OPEN", "OKAY", "WRTE", "CLSE"}, NEW s \in Stream, DeviceHandles(cmd, s)
      PROVE  toHost' \in Seq(Message) /\ dev' \in [Stream -> DevState]
  <2>1. Msg("OKAY", s, 0) \in Message /\ Msg("CLSE", s, 0) \in Message BY ChunkTypes
  <2>2. dev[s] \in DevState BY <1>0
  <2>3. /\ [dev[s] EXCEPT !.state = "open"] \in DevState
        /\ [dev[s] EXCEPT !.state = "closed"] \in DevState
        /\ [dev[s] EXCEPT !.waits = FALSE] \in DevState
    BY <2>2 DEF DevState
  <2>4. dev' \in [Stream -> DevState] BY <1>0, <1>1, <2>3 DEF DeviceHandles
  <2>5. toHost' \in Seq(Message)
    <3>1. Append(toHost, Msg("OKAY", s, 0)) \in Seq(Message)
          /\ Append(toHost, Msg("CLSE", s, 0)) \in Seq(Message)
      BY <1>0, <2>1
    <3> QED BY <1>0, <1>1, <3>1, Zenon DEF DeviceHandles
  <2> QED BY <2>4, <2>5
<1>2. CASE DeviceReads
  <2>0. toDevice # <<>> BY <1>2 DEF DeviceReads
  <2>1. Head(toDevice) \in Chunk /\ Tail(toDevice) \in Seq(Chunk) BY <1>0, <2>0
  <2>2. /\ Head(toDevice).cmd \in {"OPEN", "OKAY", "WRTE", "CLSE"} /\ Head(toDevice).s \in Stream
    BY <2>1 DEF Chunk
  <2>3. toHost' \in Seq(Message) /\ dev' \in [Stream -> DevState]
    BY <1>0, <1>1, <1>2, <2>2 DEF DeviceReads
  <2>4. pending'.s # NoStream => pending' \in Chunk
    BY <1>2, <2>1 DEF DeviceReads, TypeOK, Header
  <2>5. conn' \in {"up", "lost", "shut"} BY <1>2 DEF DeviceReads, TypeOK
  <2> QED BY <1>2, <2>1, <2>3, <2>4, <2>5 DEF TypeOK, DeviceReads, host
<1>3. CASE DeviceOther
  <2>1. NoMsg \in Message BY DEF Message
  <2> QED BY <1>3, <2>1 DEF TypeOK, DeviceOther, host, external
<1>4. CASE DeviceDrops BY <1>4 DEF TypeOK, DeviceDrops, host, external
<1>5. ASSUME NEW s \in Stream, DeviceWrites(s) \/ DeviceCloses(s) PROVE TypeOK'
  <2>1. dev[s] \in DevState /\ dev[s].sent \in Nat BY <1>0 DEF DevState
  <2>2. Msg("WRTE", s, dev[s].sent + 1) \in Message /\ Msg("CLSE", s, 0) \in Message
    BY <2>1, ChunkTypes
  <2>3. dev' \in [Stream -> DevState]
    <3>1. PICK n \in Nat : n = dev[s].sent + 1 BY <2>1
    <3>2. /\ [dev[s] EXCEPT !.sent = n, !.waits = TRUE] \in DevState
          /\ [dev[s] EXCEPT !.state = "closed"] \in DevState
      BY <2>1 DEF DevState
    <3> QED BY <1>0, <1>5, <3>1, <3>2 DEF DeviceWrites, DeviceCloses
  <2>4. toHost' \in Seq(Message)
    <3>1. Append(toHost, Msg("WRTE", s, dev[s].sent + 1)) \in Seq(Message)
          /\ Append(toHost, Msg("CLSE", s, 0)) \in Seq(Message)
      BY <1>0, <2>2
    <3> QED BY <1>5, <3>1, Zenon DEF DeviceWrites, DeviceCloses
  <2> QED BY <1>5, <2>3, <2>4 DEF TypeOK, DeviceWrites, DeviceCloses, host
<1> QED BY <1>2, <1>3, <1>4, <1>5

(* Every step of the host, the pump and the device keeps the types. *)
LEMMA TypeStep ==
  ASSUME TypeOK, [Next]_vars
  PROVE  TypeOK'
<1>1. CASE UNCHANGED vars BY <1>1 DEF TypeOK, vars
<1> QED BY <1>1, OpenType, UseType, TeardownType, PumpTypes, DeviceTypes DEF Next

(* The transport's state keeps its types: in particular no stream's channel *)
(* of writes holds more than its capacity, a dispatched message has a       *)
(* stream, and what is on the wire is well-formed (transport.go).           *)
THEOREM TransportTypes == Spec => []TypeOK
BY TypeInit, TypeStep, PTL DEF Spec
-----------------------------------------------------------------------------
(* The steps on one stream, the pump's dispatch apart. *)
Acts(s) == \/ OpenRegister(s) \/ OpenStep(s) \/ Cancel(s) \/ Read(s)
           \/ WriteStep(s) \/ CloseSend(s) \/ CloseRemove(s) \/ TeardownFail(s)

(* A step that leaves the streams alone. *)
Elsewhere == \/ \E s \in Stream : DeviceWrites(s) \/ DeviceCloses(s)
             \/ PumpError \/ PumpRead \/ PumpAck \/ TeardownEnd \/ Shut
             \/ DeviceReads \/ DeviceOther \/ DeviceDrops

(* Every step is one of these, or the pump's dispatch of a message. *)
LEMMA Steps ==
  ASSUME [Next]_vars
  PROVE  (\E s \in Stream : Acts(s)) \/ PumpRun \/ Elsewhere \/ UNCHANGED vars
BY DEF Next, PumpStep, Acts, Elsewhere

(* Those steps change no muxStream. *)
LEMMA ElsewhereSt ==
  ASSUME Elsewhere \/ UNCHANGED vars
  PROVE  st' = st
BY DEF Elsewhere, DeviceWrites, DeviceCloses, PumpError, PumpRead, PumpAck, TeardownEnd, Shut,
       DeviceReads, DeviceOther, DeviceDrops, host, vars

(* Initially no stream is open. *)
LEMMA PeersInit == Init => Peers /\ Woken
BY DEF Init, Peers, Known, Woken, Cared, NewStream

(* The error a teardown reports is one of its three callers'. *)
LEMMA ReaperErr ==
  ASSUME TypeOK, Peers, [Next]_vars
  PROVE  reaper'.pc = "fail" => reaper'.err \in {"ErrClosed", "ErrProtocol", "read"}
<1>1. reaper \in ReaperType /\ (reaper.pc = "fail" => reaper.err \in {"ErrClosed", "ErrProtocol", "read"})
  BY DEF TypeOK, ReaperType, Peers
<1>2. CASE \E s \in Stream : Acts(s)
  <2>1. reaper' = reaper \/ \E s \in Stream : TeardownFail(s)
    BY <1>2 DEF Acts, OpenRegister, OpenStep, OpenHeader, OpenPayload, OpenReady, OpenCancelled,
                Cancel, Read, WriteStep, WriteHeader, WritePayload, CloseSend, CloseRemove
  <2> QED BY <1>1, <2>1 DEF TeardownFail, ReaperType
<1>3. CASE PumpRun BY <1>1, <1>3 DEF PumpRun
<1>4. CASE Elsewhere
  <2>1. CASE PumpError \/ PumpRead
    <3>1. reaper' = reaper \/ PumpStops("read") \/ PumpStops("ErrProtocol")
      BY <2>1, PumpReadDoes DEF PumpError
    <3> QED BY <1>1, <3>1 DEF PumpStops, TeardownBegin
  <2>2. CASE TeardownEnd BY <1>1, <2>2 DEF TeardownEnd, ReaperType
  <2>3. CASE Shut BY <2>3 DEF Shut, TeardownBegin
  <2>4. CASE \/ \E s \in Stream : DeviceWrites(s) \/ DeviceCloses(s)
             \/ PumpAck \/ DeviceReads \/ DeviceOther \/ DeviceDrops
    BY <1>1, <2>4 DEF PumpAck, DeviceWrites, DeviceCloses, DeviceReads, DeviceOther, DeviceDrops, host
  <2> QED BY <1>4, <2>1, <2>2, <2>3, <2>4 DEF Elsewhere
<1>5. CASE UNCHANGED vars BY <1>1, <1>5 DEF vars
<1> QED BY <1>2, <1>3, <1>4, <1>5, Steps

(* A refusal that wakes open has set the failure; an OKAY has set the peer. *)
LEMMA PeersStep ==
  ASSUME TypeOK, Peers, [Next]_vars
  PROVE  Peers'
<1>0. \A r \in Stream : Known(r) BY DEF Peers
<1>1. ASSUME NEW s \in Stream, Only(s), Known(s)' PROVE \A r \in Stream : Known(r)'
  BY <1>0, <1>1 DEF Only, Known
<1>2. \A r \in Stream : Known(r)'
  <2>1. ASSUME NEW s \in Stream, Acts(s) PROVE \A r \in Stream : Known(r)'
    <3>0. Known(s) BY <1>0
    <3>1. CASE OpenRegister(s) \/ OpenHeader(s) \/ OpenPayload(s) \/ OpenCancelled(s)
      BY <1>1, <3>0, <3>1, OpenRegisterDoes, OpenHeaderDoes, OpenPayloadDoes, OpenCancelledDoes
         DEF Known, Looks
    <3>2. CASE OpenReady(s) BY <1>1, <3>0, <3>2, OpenReadyDoes DEF Known, Looks, OpenReady
    <3>3. CASE Cancel(s) \/ Read(s) \/ WriteStep(s) \/ CloseSend(s) \/ CloseRemove(s)
      <4>1. Only(s) /\ \E shut, cl :
              Looks(st'[s], st[s].op, st[s].ready, st[s].failErr, shut, st[s].remote, cl)
        BY <3>3, CancelDoes, ReadDoes, WriteHeaderDoes, WritePayloadDoes, CloseSendDoes,
           CloseRemoveDoes, Zenon DEF WriteStep
      <4> QED BY <1>1, <3>0, <4>1 DEF Known, Looks
    <3>4. CASE TeardownFail(s)
      <4>1. reaper.err # "none" BY <3>4 DEF Peers, TeardownFail
      <4> QED BY <1>1, <3>0, <3>4, <4>1, TeardownFailDoes DEF Known, Looks
    <3> QED BY <2>1, <3>1, <3>2, <3>3, <3>4 DEF Acts, OpenStep
  <2>2. CASE PumpRun
    <3>1. PICK s \in Stream, n \in Nat : s = pump.m.s /\ n = pump.m.n BY <2>2, HandType DEF PumpRun
    <3>2. onReady(s) \/ onWrite(s, n) \/ onClose(s) BY <2>2, <3>1, PumpRunDoes
    <3>3. Known(s) BY <1>0
    <3>4. CASE onReady(s) BY <1>1, <3>3, <3>4, onReadyDoes DEF Known, Looks
    <3>5. CASE onWrite(s, n)
      <4>1. Only(s) /\ Looks(st'[s], st[s].op, st[s].ready, st[s].failErr, st[s].closed,
                             st[s].remote, st[s].cl)
        BY <3>5, onWriteDoes
      <4> QED BY <1>1, <3>3, <4>1 DEF Known, Looks
    <3>6. CASE onClose(s)
      <4>1. Only(s) /\ \E e \in Error :
              /\ Looks(st'[s], st[s].op, TRUE, e, TRUE, st[s].remote, st[s].cl)
              /\ IF st[s].ready THEN e = st[s].failErr ELSE e = "ErrStreamClosed"
        BY <3>6, onCloseDoes
      <4> QED BY <1>1, <3>3, <4>1 DEF Known, Looks
    <3> QED BY <3>2, <3>4, <3>5, <3>6
  <2>3. CASE Elsewhere \/ UNCHANGED vars BY <1>0, <2>3, ElsewhereSt DEF Known
  <2> QED BY <2>1, <2>2, <2>3, Steps
<1> QED BY <1>2, ReaperErr DEF Peers

(* open hands out a stream only when its peer is known, however many        *)
(* streams there are and whatever the device answers (open, onReady,        *)
(* onClose, fail: transport.go).                                            *)
THEOREM OpensKnowTheirPeer == Spec => []OpenKnowsPeer
<1>1. Init => TypeOK /\ Peers BY TypeInit, PeersInit
<1>2. TypeOK /\ Peers /\ [Next]_vars => (TypeOK /\ Peers)' BY TypeStep, PeersStep
<1>3. Peers => OpenKnowsPeer BY DEF Peers, Known, OpenKnowsPeer
<1> QED BY <1>1, <1>2, <1>3, PTL DEF Spec

(* One teardown runs, and it leaves the table empty. *)
Reaping ==
  /\ closed <=> reaper.pc # "none"
  /\ closed => streams = {}
  /\ reaper.pc # "fail" => reaper.left = {}

(* How a teardown begins: it takes all the streams in the table. *)
LEMMA BeginReaps ==
  ASSUME TypeOK, Reaping, ~closed, NEW by, NEW err, TeardownBegin(by, err)
  PROVE  Reaping' /\ streams \subseteq reaper'.left /\ reaper.left = {}
BY DEF Reaping, TeardownBegin

(* Every step keeps to one teardown. *)
LEMMA ReapingStep ==
  ASSUME TypeOK, Reaping, [Next]_vars
  PROVE  Reaping'
<1>0. reaper \in ReaperType BY DEF TypeOK, ReaperType
<1>1. CASE \E s \in Stream : Acts(s)
  <2>1. PICK s \in Stream : Acts(s) BY <1>1
  <2>2. CASE TeardownFail(s)
    <3>1. reaper'.pc = reaper.pc /\ reaper.pc = "fail" BY <1>0, <2>2 DEF TeardownFail, ReaperType
    <3> QED BY <2>2, <3>1 DEF TeardownFail, Reaping
  <2>3. CASE ~TeardownFail(s)
    <3>1. /\ reaper' = reaper /\ closed' = closed
          /\ streams' \subseteq streams \/ ~closed
      BY <2>1, <2>3 DEF Acts, OpenRegister, OpenStep, OpenHeader, OpenPayload, OpenReady,
           OpenCancelled, Cancel, Read, WriteStep, WriteHeader, WritePayload, CloseSend, CloseRemove
    <3> QED BY <3>1 DEF Reaping
  <2> QED BY <2>2, <2>3
<1>2. CASE PumpRun BY <1>2 DEF PumpRun, Reaping
<1>3. CASE Elsewhere
  <2>1. CASE PumpError \/ PumpRead
    <3>1. UNCHANGED <<streams, closed, reaper>> \/ \E err : PumpStops(err)
      BY <2>1, PumpReadDoes DEF PumpError
    <3>2. CASE \E err : PumpStops(err)
      <4>1. CASE closed BY <3>2, <4>1 DEF PumpStops, Reaping
      <4>2. CASE ~closed BY <3>2, <4>2, BeginReaps DEF PumpStops
      <4> QED BY <4>1, <4>2
    <3> QED BY <3>1, <3>2 DEF Reaping
  <2>2. CASE TeardownEnd
    <3>1. reaper'.pc = "done" /\ reaper'.left = {} BY <1>0, <2>2 DEF TeardownEnd, ReaperType
    <3> QED BY <2>2, <3>1 DEF TeardownEnd, Reaping
  <2>3. CASE Shut BY <2>3, BeginReaps DEF Shut
  <2>4. CASE \/ \E s \in Stream : DeviceWrites(s) \/ DeviceCloses(s)
             \/ PumpAck \/ DeviceReads \/ DeviceOther \/ DeviceDrops
    <3>1. UNCHANGED <<streams, closed, reaper>>
      BY <2>4 DEF PumpAck, DeviceWrites, DeviceCloses, DeviceReads, DeviceOther, DeviceDrops, host
    <3> QED BY <3>1 DEF Reaping
  <2> QED BY <1>3, <2>1, <2>2, <2>3, <2>4 DEF Elsewhere
<1>4. CASE UNCHANGED vars BY <1>4 DEF vars, Reaping
<1> QED BY <1>1, <1>2, <1>3, <1>4, Steps

(* A step that leaves the streams alone may move them from the table to the *)
(* teardown, not out of both.                                               *)
LEMMA ElsewhereKeeps ==
  ASSUME TypeOK, Reaping, Elsewhere \/ UNCHANGED vars, NEW r \in Stream,
         r \in streams \/ r \in reaper.left
  PROVE  r \in streams' \/ r \in reaper'.left
<1>0. reaper \in ReaperType BY DEF TypeOK, ReaperType
<1>1. CASE PumpError \/ PumpRead
  <2>1. UNCHANGED <<streams, closed, reaper>> \/ \E err : PumpStops(err)
    BY <1>1, PumpReadDoes DEF PumpError
  <2>2. CASE \E err : PumpStops(err)
    <3>1. CASE closed BY <2>2, <3>1 DEF PumpStops
    <3>2. CASE ~closed BY <2>2, <3>2, BeginReaps DEF PumpStops
    <3> QED BY <3>1, <3>2
  <2> QED BY <2>1, <2>2
<1>2. CASE TeardownEnd
  <2>1. reaper'.left = reaper.left BY <1>0, <1>2 DEF TeardownEnd, ReaperType
  <2> QED BY <1>2, <2>1 DEF TeardownEnd
<1>3. CASE Shut BY <1>3, BeginReaps DEF Shut
<1>4. CASE \/ \E s \in Stream : DeviceWrites(s) \/ DeviceCloses(s)
           \/ PumpAck \/ DeviceReads \/ DeviceOther \/ DeviceDrops \/ UNCHANGED vars
  BY <1>4 DEF PumpAck, DeviceWrites, DeviceCloses, DeviceReads, DeviceOther, DeviceDrops, host, vars
<1> QED BY <1>1, <1>2, <1>3, <1>4 DEF Elsewhere

(* open registers under the lock that the teardown takes, and gives its     *)
(* entry up only when it fails; Close removes a stream that is closed.      *)
LEMMA WokenStep ==
  ASSUME TypeOK, Peers, Woken, [Next]_vars
  PROVE  Woken'
<1>0. Reaping /\ (\A r \in Stream : Cared(r)) /\ reaper \in ReaperType
  BY DEF Woken, Reaping, TypeOK, ReaperType
<1>1. ASSUME NEW s \in Stream, Only(s), Cared(s)', 
             streams \subseteq streams' \cup {s}, reaper.left \subseteq reaper'.left \cup {s}
      PROVE  \A r \in Stream : Cared(r)'
  BY <1>0, <1>1 DEF Only, Cared
<1>2. \A r \in Stream : Cared(r)'
  <2>1. ASSUME NEW s \in Stream, Acts(s) PROVE \A r \in Stream : Cared(r)'
    <3>0. Cared(s) BY <1>0
    <3>1. CASE OpenRegister(s)
      BY <1>1, <3>0, <3>1, OpenRegisterDoes DEF Cared, Looks, OpenRegister
    <3>2. CASE OpenHeader(s)
      BY <1>1, <3>0, <3>2, OpenHeaderDoes DEF Cared, Looks, OpenHeader
    <3>3. CASE OpenPayload(s)
      BY <1>1, <3>0, <3>3, OpenPayloadDoes DEF Cared, Looks, OpenPayload
    <3>4. CASE OpenReady(s)
      BY <1>1, <3>0, <3>4, OpenReadyDoes DEF Cared, Looks, OpenReady
    <3>5. CASE OpenCancelled(s)
      <4>1. st[s].op = "select" /\ streams' = streams \ {s} /\ reaper' = reaper
        BY <3>5 DEF OpenCancelled
      <4>2. Only(s) /\ Looks(st'[s], "failed", st[s].ready, st[s].failErr, st[s].closed,
                             st[s].remote, st[s].cl)
        BY <3>5, OpenCancelledDoes
      <4> QED BY <1>1, <3>0, <4>1, <4>2 DEF Cared, Looks
    <3>6. CASE Cancel(s) \/ Read(s) \/ WriteStep(s)
      <4>1. UNCHANGED <<streams, reaper>>
        BY <3>6 DEF Cancel, Read, WriteStep, WriteHeader, WritePayload
      <4>2. Only(s) /\ Looks(st'[s], st[s].op, st[s].ready, st[s].failErr, st[s].closed,
                             st[s].remote, st[s].cl)
        BY <3>6, CancelDoes, ReadDoes, WriteHeaderDoes, WritePayloadDoes DEF WriteStep
      <4> QED BY <1>1, <3>0, <4>1, <4>2 DEF Cared, Looks
    <3>7. CASE CloseSend(s)
      BY <1>1, <3>0, <3>7, CloseSendDoes DEF Cared, Looks, CloseSend
    <3>8. CASE CloseRemove(s)
      <4>1. st[s].op = "open" /\ st[s].closed /\ st[s].ready
        BY <3>0, <3>8 DEF CloseRemove, Cared, Peers, Known
      <4>2. streams' = streams \ {s} /\ reaper' = reaper BY <3>8 DEF CloseRemove
      <4>3. Only(s) /\ Looks(st'[s], st[s].op, st[s].ready, st[s].failErr, st[s].closed,
                             st[s].remote, "done")
        BY <3>8, CloseRemoveDoes
      <4> QED BY <1>1, <4>1, <4>2, <4>3 DEF Cared, Looks
    <3>9. CASE TeardownFail(s)
      <4>1. streams' = streams /\ reaper'.left = reaper.left \ {s}
        BY <1>0, <3>9 DEF TeardownFail, ReaperType
      <4> QED BY <1>1, <3>0, <3>9, <4>1, TeardownFailDoes DEF Cared, Looks
    <3> QED BY <2>1, <3>1, <3>2, <3>3, <3>4, <3>5, <3>6, <3>7, <3>8, <3>9 DEF Acts, OpenStep
  <2>2. CASE PumpRun
    <3>1. PICK s \in Stream, n \in Nat : s = pump.m.s /\ n = pump.m.n BY <2>2, HandType DEF PumpRun
    <3>2. onReady(s) \/ onWrite(s, n) \/ onClose(s) BY <2>2, <3>1, PumpRunDoes
    <3>3. Cared(s) /\ UNCHANGED <<streams, reaper>> BY <1>0, <2>2 DEF PumpRun
    <3>4. CASE onReady(s) BY <1>1, <3>3, <3>4, onReadyDoes DEF Cared, Looks
    <3>5. CASE onWrite(s, n)
      <4>1. Only(s) /\ Looks(st'[s], st[s].op, st[s].ready, st[s].failErr, st[s].closed,
                             st[s].remote, st[s].cl)
        BY <3>5, onWriteDoes
      <4> QED BY <1>1, <3>3, <4>1 DEF Cared, Looks
    <3>6. CASE onClose(s)
      <4>1. Only(s) /\ \E e \in Error :
              Looks(st'[s], st[s].op, TRUE, e, TRUE, st[s].remote, st[s].cl)
        BY <3>6, onCloseDoes
      <4> QED BY <1>1, <3>3, <4>1 DEF Cared, Looks
    <3> QED BY <3>2, <3>4, <3>5, <3>6
  <2>3. CASE Elsewhere \/ UNCHANGED vars
    BY <1>0, <2>3, ElsewhereSt, ElsewhereKeeps DEF Cared
  <2> QED BY <2>1, <2>2, <2>3, Steps
<1> QED BY <1>0, <1>2, ReapingStep DEF Woken, Reaping

(* The three together are inductive. *)
LEMMA TransportInvariant == Spec => []TransportInv
<1>1. Init => TransportInv BY TypeInit, PeersInit DEF TransportInv
<1>2. TransportInv /\ [Next]_vars => TransportInv'
  BY TypeStep, PeersStep, WokenStep DEF TransportInv
<1> QED BY <1>1, <1>2, PTL DEF Spec

(* After a teardown every open that registered is awake, and every open     *)
(* stream is closed, however the registrations, Close and the teardown      *)
(* interleave (open, Close, teardown: transport.go).                        *)
THEOREM TeardownReachesAll == Spec => []NobodyOrphaned
<1>1. TransportInv => NobodyOrphaned
  BY DEF TransportInv, Woken, Cared, NobodyOrphaned
<1> QED BY <1>1, TransportInvariant, PTL
-----------------------------------------------------------------------------
(* A queue that grows at its end or loses its first element, point by       *)
(* point.                                                                   *)
LEMMA AppendPoints ==
  ASSUME NEW S, NEW q \in Seq(S), NEW m \in S
  PROVE  /\ Append(q, m) \in Seq(S) /\ Len(q) \in Nat
         /\ Len(Append(q, m)) = Len(q) + 1 /\ Append(q, m)[Len(q) + 1] = m
         /\ \A i \in 1..Len(q) : Append(q, m)[i] = q[i]
OBVIOUS

(* The queue without its first element. *)
LEMMA TailPoints ==
  ASSUME NEW S, NEW q \in Seq(S), q # <<>>
  PROVE  /\ Tail(q) \in Seq(S) /\ Len(q) \in Nat \ {0} /\ Len(Tail(q)) = Len(q) - 1
         /\ Head(q) = q[1] /\ Head(q) \in S
         /\ \A i \in 1..Len(Tail(q)) : Tail(q)[i] = q[i + 1]
OBVIOUS

(* A chunk is written after the others. *)
LEMMA ChunkAppended ==
  ASSUME NEW q \in Seq(Chunk), NEW k \in Chunk, NEW p, p = Append(q, k), NEW c
  PROVE  /\ OnWay(p, c) <=> OnWay(q, c) \/ c = k
         /\ Once(q, c) /\ ~(c = k /\ OnWay(q, c)) => Once(p, c)
<1>1. Len(q) \in Nat /\ Len(p) = Len(q) + 1 /\ p[Len(q) + 1] = k
      /\ \A i \in 1..Len(q) : p[i] = q[i]
  BY AppendPoints
<1>2. \A i \in 1..Len(p) : i \in 1..Len(q) \/ i = Len(q) + 1 BY <1>1
<1>3. 1..Len(q) \subseteq 1..Len(p) /\ Len(q) + 1 \in 1..Len(p) BY <1>1
<1>4. OnWay(p, c) <=> OnWay(q, c) \/ c = k BY <1>1, <1>2, <1>3 DEF OnWay
<1>5. Once(q, c) /\ ~(c = k /\ OnWay(q, c)) => Once(p, c)
  BY <1>1, <1>2, <1>3 DEF Once, OnWay
<1> QED BY <1>4, <1>5

(* The device takes the first chunk. *)
LEMMA ChunkTaken ==
  ASSUME NEW q \in Seq(Chunk), q # <<>>, NEW p, p = Tail(q), NEW c
  PROVE  /\ OnWay(p, c) => OnWay(q, c)
         /\ OnWay(q, Head(q))
         /\ Once(q, c) => Once(p, c) /\ (c = Head(q) => ~OnWay(p, c))
<1>1. Len(q) \in Nat \ {0} /\ Len(p) = Len(q) - 1 /\ Head(q) = q[1]
      /\ \A i \in 1..Len(p) : p[i] = q[i + 1]
  BY TailPoints
<1>2. 1 \in 1..Len(q) /\ \A i \in 1..Len(p) : i + 1 \in 1..Len(q) /\ i + 1 # 1 BY <1>1
<1>3. \A i, j \in 1..Len(p) : i + 1 = j + 1 => i = j OBVIOUS
<1>4. OnWay(p, c) => OnWay(q, c) BY <1>1, <1>2 DEF OnWay
<1>5. OnWay(q, Head(q)) BY <1>1, <1>2 DEF OnWay
<1>6. ASSUME Once(q, c) PROVE Once(p, c) BY <1>1, <1>2, <1>3, <1>6 DEF Once
<1>7. ASSUME Once(q, c), c = Head(q) PROVE ~OnWay(p, c)
  BY <1>1, <1>2, <1>7 DEF Once, OnWay
<1> QED BY <1>4, <1>5, <1>6, <1>7

(* How a queue that gains the message m looks to stream s. *)
Gains(q, p, m, s) ==
  /\ Comes(p, "WRTE", s) <=> Comes(q, "WRTE", s) \/ (m.cmd = "WRTE" /\ m.s = s)
  /\ Comes(p, "CLSE", s) <=> Comes(q, "CLSE", s) \/ (m.cmd = "CLSE" /\ m.s = s)
  /\ About(p, s) <=> About(q, s) \/ m.s = s
  /\ OneData(q, s) /\ ~(m.cmd = "WRTE" /\ m.s = s /\ Comes(q, "WRTE", s)) => OneData(p, s)
  /\ \A n : /\ Numbered(q, s, n) \/ ~Comes(q, "WRTE", s)
            /\ m.cmd = "WRTE" /\ m.s = s => m.n = n
            => Numbered(p, s, n)
  /\ ClosedLast(q, s) /\ ~(m.cmd = "WRTE" /\ m.s = s /\ Comes(q, "CLSE", s))
       => ClosedLast(p, s)

(* The device writes a message after the others. *)
LEMMA MessageAppended ==
  ASSUME NEW q \in Seq(Message), NEW m \in Message, NEW p, p = Append(q, m), NEW s
  PROVE  Gains(q, p, m, s)
<1>1. Len(q) \in Nat /\ Len(p) = Len(q) + 1 /\ p[Len(q) + 1] = m
      /\ \A i \in 1..Len(q) : p[i] = q[i]
  BY AppendPoints
<1>2. \A i \in 1..Len(p) : i \in 1..Len(q) \/ i = Len(q) + 1 BY <1>1
<1>3. 1..Len(q) \subseteq 1..Len(p) /\ Len(q) + 1 \in 1..Len(p)
      /\ \A i \in 1..Len(q) : i < Len(q) + 1
  BY <1>1
<1>4. \A cmd : Comes(p, cmd, s) <=> Comes(q, cmd, s) \/ (m.cmd = cmd /\ m.s = s)
  BY <1>1, <1>2, <1>3 DEF Comes, Sends
<1>5. About(p, s) <=> About(q, s) \/ m.s = s BY <1>1, <1>2, <1>3 DEF About
<1>6. OneData(q, s) /\ ~(m.cmd = "WRTE" /\ m.s = s /\ Comes(q, "WRTE", s)) => OneData(p, s)
  BY <1>1, <1>2 DEF OneData, Comes, Sends
<1>7. ASSUME NEW n, Numbered(q, s, n) \/ ~Comes(q, "WRTE", s),
             m.cmd = "WRTE" /\ m.s = s => m.n = n
      PROVE  Numbered(p, s, n)
  BY <1>1, <1>2, <1>7 DEF Numbered, Comes, Sends
<1>8. ClosedLast(q, s) /\ ~(m.cmd = "WRTE" /\ m.s = s /\ Comes(q, "CLSE", s)) => ClosedLast(p, s)
  BY <1>1, <1>2, <1>3 DEF ClosedLast, Comes, Sends
<1> QED BY <1>4, <1>5, <1>6, <1>7, <1>8 DEF Gains

(* How a queue that loses its first message h looks to stream s. *)
Loses(q, p, h, s) ==
  /\ Comes(q, "WRTE", s) <=> Comes(p, "WRTE", s) \/ (h.cmd = "WRTE" /\ h.s = s)
  /\ Comes(q, "CLSE", s) <=> Comes(p, "CLSE", s) \/ (h.cmd = "CLSE" /\ h.s = s)
  /\ About(q, s) <=> About(p, s) \/ h.s = s
  /\ OneData(q, s) => /\ OneData(p, s)
                      /\ h.cmd = "WRTE" /\ h.s = s => ~Comes(p, "WRTE", s)
  /\ \A n : Numbered(q, s, n) => /\ Numbered(p, s, n)
                                 /\ h.cmd = "WRTE" /\ h.s = s => h.n = n
  /\ ClosedLast(q, s) => /\ ClosedLast(p, s)
                         /\ h.cmd = "CLSE" /\ h.s = s => ~Comes(p, "WRTE", s)

(* The pump takes the first message. *)
LEMMA MessageTaken ==
  ASSUME NEW q \in Seq(Message), q # <<>>, NEW p, p = Tail(q), NEW s, NEW h, h = Head(q)
  PROVE  Loses(q, p, h, s)
<1>1. Len(q) \in Nat \ {0} /\ Len(p) = Len(q) - 1 /\ h = q[1]
      /\ \A i \in 1..Len(p) : p[i] = q[i + 1]
  BY TailPoints
<1>2. 1 \in 1..Len(q) /\ \A i \in 1..Len(p) : i + 1 \in 1..Len(q) /\ i + 1 # 1 /\ ~(i + 1 < 1)
  BY <1>1
<1>3. \A i, j \in 1..Len(p) : (i + 1 = j + 1 => i = j) /\ (i + 1 < j + 1 => i < j) OBVIOUS
<1>4. \A i \in 1..Len(q) : i = 1 \/ \E j \in 1..Len(p) : i = j + 1
  <2>1. ASSUME NEW i \in 1..Len(q), i # 1 PROVE i - 1 \in 1..Len(p) /\ i = (i - 1) + 1 BY <1>1, <2>1
  <2> QED BY <2>1
<1>5. \A cmd : Comes(q, cmd, s) <=> Comes(p, cmd, s) \/ (h.cmd = cmd /\ h.s = s)
  <2>1. ASSUME NEW cmd, NEW i \in 1..Len(q), Sends(q, i, cmd, s)
        PROVE  Comes(p, cmd, s) \/ (h.cmd = cmd /\ h.s = s)
    <3>1. CASE i = 1 BY <1>1, <2>1, <3>1 DEF Sends
    <3>2. ASSUME NEW j \in 1..Len(p), i = j + 1 PROVE Sends(p, j, cmd, s)
      BY <1>1, <2>1, <3>2 DEF Sends
    <3> QED BY <1>4, <3>1, <3>2 DEF Comes
  <2>2. ASSUME NEW cmd, NEW i \in 1..Len(p), Sends(p, i, cmd, s) PROVE Comes(q, cmd, s)
    <3>1. Sends(q, i + 1, cmd, s) BY <1>1, <2>2 DEF Sends
    <3> QED BY <1>2, <3>1 DEF Comes
  <2>3. ASSUME NEW cmd, h.cmd = cmd, h.s = s PROVE Comes(q, cmd, s)
    <3>1. Sends(q, 1, cmd, s) BY <1>1, <2>3 DEF Sends
    <3> QED BY <1>2, <3>1 DEF Comes
  <2> QED BY <2>1, <2>2, <2>3 DEF Comes
<1>6. About(q, s) <=> About(p, s) \/ h.s = s
  <2>1. ASSUME NEW i \in 1..Len(q), q[i].s = s PROVE About(p, s) \/ h.s = s
    <3>1. ASSUME NEW j \in 1..Len(p), i = j + 1 PROVE p[j].s = s BY <1>1, <2>1, <3>1
    <3> QED BY <1>1, <1>4, <2>1, <3>1 DEF About
  <2>2. ASSUME NEW i \in 1..Len(p), p[i].s = s PROVE q[i + 1].s = s BY <1>1, <2>2
  <2> QED BY <1>1, <1>2, <2>1, <2>2 DEF About
<1>7. ASSUME OneData(q, s) PROVE OneData(p, s) BY <1>1, <1>2, <1>3, <1>7 DEF OneData, Sends
<1>8. ASSUME OneData(q, s), h.cmd = "WRTE", h.s = s PROVE ~Comes(p, "WRTE", s)
  BY <1>1, <1>2, <1>8 DEF OneData, Comes, Sends
<1>9. ASSUME NEW n, Numbered(q, s, n)
      PROVE  Numbered(p, s, n) /\ (h.cmd = "WRTE" /\ h.s = s => h.n = n)
  BY <1>1, <1>2, <1>9 DEF Numbered, Sends
<1>10. ASSUME ClosedLast(q, s) PROVE ClosedLast(p, s)
  BY <1>1, <1>2, <1>3, <1>10 DEF ClosedLast, Sends
<1>11. ASSUME ClosedLast(q, s), h.cmd = "CLSE", h.s = s PROVE ~Comes(p, "WRTE", s)
  BY <1>1, <1>2, <1>11 DEF ClosedLast, Comes, Sends
<1> QED BY <1>5, <1>6, <1>7, <1>8, <1>9, <1>10, <1>11 DEF Loses
-----------------------------------------------------------------------------
(* A step of the host's callers: the device and the pump have not moved. *)
LEMMA Same ==
  ASSUME UNCHANGED <<toHost, pump, dev>>, NEW r \in Stream
  PROVE  /\ \A cmd : InHand(cmd, r)' <=> InHand(cmd, r)
         /\ Acking(r)' <=> Acking(r)
         /\ InFlight(r)' <=> InFlight(r)
         /\ OneOut(r) => OneOut(r)'
         /\ Last(r) => Last(r)'
<1>1. (\A cmd : InHand(cmd, r)' <=> InHand(cmd, r)) /\ (Acking(r)' <=> Acking(r)) BY DEF InHand, Acking
<1>2. InFlight(r)' <=> InFlight(r) BY <1>1 DEF InFlight
<1>3. OneOut(r) => OneOut(r)' BY <1>1, <1>2 DEF OneOut
<1>4. Last(r) => Last(r)' BY <1>1 DEF Last
<1> QED BY <1>1, <1>2, <1>3, <1>4

(* What a caller's step on s writes, and to whom it matters. *)
Wrote(s) ==
  \/ toDevice' = toDevice
  \/ \E k \in Chunk : /\ toDevice' = Append(toDevice, k) /\ k.s = s
                      /\ k # Header("OKAY", s)
                      /\ k = Payload("OPEN", s) => OpenPayload(s) /\ Up
                      /\ k = Header("CLSE", s) => CloseSend(s)

(* A caller's step writes at most one chunk, about its own stream. *)
LEMMA ActsWrites ==
  ASSUME TypeOK, NEW s \in Stream, Acts(s)
  PROVE  /\ UNCHANGED <<toHost, pump, dev, pending>> /\ Wrote(s)
         /\ \A r \in Stream : r # s => /\ r \in streams' <=> r \in streams
                                       /\ r \in reaper'.left <=> r \in reaper.left
<1>1. \A cmd \in {"OPEN", "OKAY", "WRTE", "CLSE"} :
        /\ Header(cmd, s) \in Chunk /\ Payload(cmd, s) \in Chunk
        /\ Header(cmd, s).s = s /\ Payload(cmd, s).s = s
  BY ChunkTypes DEF Header, Payload
<1>2. \A cmd, cmd2 : /\ Header(cmd, s) # Payload(cmd2, s)
                     /\ Header(cmd, s) = Header(cmd2, s) => cmd = cmd2
                     /\ Payload(cmd, s) = Payload(cmd2, s) => cmd = cmd2
  BY DEF Header, Payload
<1>3. UNCHANGED <<toHost, pump, dev, pending>>
  BY DEF Acts, OpenRegister, OpenStep, OpenHeader, OpenPayload, OpenReady, OpenCancelled, Cancel,
         Read, WriteStep, WriteHeader, WritePayload, CloseSend, CloseRemove, TeardownFail, external
<1>4. Wrote(s)
  <2>1. CASE OpenHeader(s) BY <1>1, <1>2, <2>1 DEF OpenHeader, Sent, Wrote
  <2>2. CASE OpenPayload(s) BY <1>1, <1>2, <2>2 DEF OpenPayload, Sent, Wrote
  <2>3. CASE WriteHeader(s) BY <1>1, <1>2, <2>3 DEF WriteHeader, Sent, Wrote
  <2>4. CASE WritePayload(s) BY <1>1, <1>2, <2>4 DEF WritePayload, Sent, Wrote
  <2>5. CASE CloseSend(s) BY <1>1, <1>2, <2>5 DEF CloseSend, Sent, Wrote
  <2>6. CASE \/ OpenRegister(s) \/ OpenReady(s) \/ OpenCancelled(s) \/ Cancel(s) \/ Read(s)
             \/ CloseRemove(s) \/ TeardownFail(s)
    BY <2>6 DEF OpenRegister, OpenReady, OpenCancelled, Cancel, Read, CloseRemove, TeardownFail, Wrote
  <2> QED BY <2>1, <2>2, <2>3, <2>4, <2>5, <2>6 DEF Acts, OpenStep, WriteStep
<1>5. ASSUME NEW r \in Stream, r # s
      PROVE  (r \in streams' <=> r \in streams) /\ (r \in reaper'.left <=> r \in reaper.left)
  <2>0. reaper \in ReaperType BY DEF TypeOK, ReaperType
  <2>1. CASE TeardownFail(s)
    <3>1. reaper'.left = reaper.left \ {s} BY <2>0, <2>1 DEF TeardownFail, ReaperType
    <3> QED BY <1>5, <2>1, <3>1 DEF TeardownFail
  <2>2. CASE ~TeardownFail(s)
    BY <1>5, <2>2 DEF Acts, OpenRegister, OpenStep, OpenHeader, OpenPayload, OpenReady,
         OpenCancelled, Cancel, Read, WriteStep, WriteHeader, WritePayload, CloseSend, CloseRemove
  <2> QED BY <2>1, <2>2
<1> QED BY <1>3, <1>4, <1>5

(* The chunks of two streams differ. *)
LEMMA ChunksDiffer ==
  ASSUME NEW s \in Stream, NEW r \in Stream, r # s, NEW k \in Chunk, k.s = s
  PROVE  k # Payload("OPEN", r) /\ k # Header("CLSE", r) /\ k # Header("OKAY", r)
BY DEF Header, Payload

(* A step on one stream does not touch what another relies on. *)
LEMMA ActsOthers ==
  ASSUME TypeOK, NEW s \in Stream, Acts(s), Only(s), NEW r \in Stream, r # s, Sound(r)
  PROVE  Sound(r)'
<1>1. /\ UNCHANGED <<toHost, pump, dev>> /\ Wrote(s) /\ st'[r] = st[r]
      /\ r \in streams' <=> r \in streams
      /\ r \in reaper'.left <=> r \in reaper.left
  BY ActsWrites DEF Only
<1>2. /\ \A cmd : InHand(cmd, r)' <=> InHand(cmd, r)
      /\ Acking(r)' <=> Acking(r)
      /\ InFlight(r)' <=> InFlight(r)
      /\ OneOut(r)' /\ Last(r)'
  BY <1>1, Same DEF Sound
<1>3. Fresh(r)' BY <1>1 DEF Sound, Fresh
<1>4. Begun(r)' BY <1>1 DEF Sound, Begun
<1>5. Out(r)'
  <2>1. CASE toDevice' = toDevice BY <1>1, <1>2, <2>1 DEF Sound, Out
  <2>2. ASSUME NEW k \in Chunk, toDevice' = Append(toDevice, k), k.s = s PROVE Out(r)'
    <3>1. toDevice \in Seq(Chunk) BY DEF TypeOK
    <3>2. k # Payload("OPEN", r) /\ k # Header("CLSE", r) /\ k # Header("OKAY", r)
      BY <2>2, ChunksDiffer
    <3>3. PICK p : p = toDevice' OBVIOUS
    <3>4. \A c : /\ OnWay(p, c) <=> OnWay(toDevice, c) \/ c = k
                 /\ Once(toDevice, c) /\ ~(c = k /\ OnWay(toDevice, c)) => Once(p, c)
      BY <2>2, <3>1, <3>3, ChunkAppended
    <3>5. /\ OnWay(p, Payload("OPEN", r)) <=> OnWay(toDevice, Payload("OPEN", r))
          /\ Once(toDevice, Payload("OPEN", r)) => Once(p, Payload("OPEN", r))
      BY <3>2, <3>4
    <3>6. OnWay(p, Header("CLSE", r)) <=> OnWay(toDevice, Header("CLSE", r))
      BY <3>2, <3>4
    <3>7. /\ OnWay(p, Header("OKAY", r)) <=> OnWay(toDevice, Header("OKAY", r))
          /\ Once(toDevice, Header("OKAY", r)) => Once(p, Header("OKAY", r))
      BY <3>2, <3>4
    <3> QED BY <1>1, <1>2, <3>3, <3>5, <3>6, <3>7 DEF Sound, Out
  <2> QED BY <1>1, <2>1, <2>2 DEF Wrote
<1>6. Lossless(r)'
  <2>1. All(r)' <=> All(r) BY <1>1, <1>2 DEF All
  <2> QED BY <1>1, <1>2, <2>1 DEF Sound, Lossless, InOrder, Ended, AtEnd
<1> QED BY <1>2, <1>3, <1>4, <1>5, <1>6 DEF Sound

(* What its own steps put on the way to the device. *)
LEMMA OutOwn ==
  ASSUME TypeOK, NEW s \in Stream, UNCHANGED <<toHost, pump, dev>>, Wrote(s), Out(s), Begun(s),
         st'[s].op \in Early => st[s].op \in Early,
         st[s].cl # "no" => st'[s].cl # "no",
         CloseSend(s) => st'[s].cl # "no",
         OpenPayload(s) /\ Up => st[s].op = "payload" /\ st'[s].op = "select"
  PROVE  Out(s)'
<1>1. (InFlight(s)' <=> InFlight(s)) /\ (Acking(s)' <=> Acking(s)) BY Same
<1>2. CASE toDevice' = toDevice BY <1>1, <1>2 DEF Out
<1>3. ASSUME NEW k \in Chunk, toDevice' = Append(toDevice, k), k # Header("OKAY", s),
             k = Payload("OPEN", s) => OpenPayload(s) /\ Up,
             k = Header("CLSE", s) => CloseSend(s)
      PROVE  Out(s)'
  <2>1. toDevice \in Seq(Chunk) BY DEF TypeOK
  <2>2. PICK p : p = toDevice' OBVIOUS
  <2>3. \A c : /\ OnWay(p, c) <=> OnWay(toDevice, c) \/ c = k
               /\ Once(toDevice, c) /\ ~(c = k /\ OnWay(toDevice, c)) => Once(p, c)
    BY <1>3, <2>1, <2>2, ChunkAppended
  <2>4. /\ OnWay(p, Header("OKAY", s)) <=> OnWay(toDevice, Header("OKAY", s))
        /\ Once(toDevice, Header("OKAY", s)) => Once(p, Header("OKAY", s))
    BY <1>3, <2>3
  <2>5. OnWay(p, Header("CLSE", s)) => st'[s].cl # "no" BY <1>3, <2>3 DEF Out
  <2>6. CASE k # Payload("OPEN", s)
    <3>1. /\ OnWay(p, Payload("OPEN", s)) <=> OnWay(toDevice, Payload("OPEN", s))
          /\ Once(toDevice, Payload("OPEN", s)) => Once(p, Payload("OPEN", s))
      BY <2>3, <2>6
    <3> QED BY <1>1, <2>2, <2>4, <2>5, <3>1 DEF Out
  <2>7. CASE k = Payload("OPEN", s)
    <3>1. st[s].op = "payload" /\ st'[s].op = "select" BY <1>3, <2>7
    <3>2. dev[s].state = "none" /\ ~OnWay(toDevice, Payload("OPEN", s))
          /\ st'[s].op \notin Early
      BY <3>1 DEF Out, Begun, Early
    <3>3. Once(p, Payload("OPEN", s)) BY <2>3, <3>2 DEF Out
    <3> QED BY <1>1, <2>2, <2>4, <2>5, <3>2, <3>3 DEF Out
  <2> QED BY <2>6, <2>7
<1> QED BY <1>2, <1>3 DEF Wrote

(* A step of s that neither reads, nor closes, nor fails the stream. *)
Plain(s) ==
  /\ st'[s].op \in Early => st[s].op \in Early
  /\ st'[s].op = "idle" => st[s].op = "idle"
  /\ st'[s].remote = st[s].remote /\ st'[s].failErr = st[s].failErr
  /\ st'[s].closed = st[s].closed /\ st'[s].cl \in {st[s].cl, "done"}
  /\ Data(st'[s], st[s].got, st[s].writes, st[s].end)
  /\ s \in streams' => s \in streams
  /\ reaper' = reaper

(* A plain step keeps what its own stream relies on. *)
LEMMA PlainOwn ==
  ASSUME NEW s \in Stream, UNCHANGED <<toHost, pump, dev>>, Plain(s), Sound(s)
  PROVE  Fresh(s)' /\ Begun(s)' /\ Lossless(s)'
<1>1. /\ \A cmd : InHand(cmd, s)' <=> InHand(cmd, s)
      /\ InFlight(s)' <=> InFlight(s)
  BY Same
<1>2. Fresh(s)' BY DEF Plain, Sound, Fresh, Data
<1>3. Begun(s)' BY DEF Plain, Sound, Begun
<1>4. All(s)' <=> All(s) BY <1>1 DEF All, Plain, Data
<1>5. (InOrder(s)' <=> InOrder(s)) /\ (Ended(s)' <=> Ended(s)) /\ (AtEnd(s)' <=> AtEnd(s))
  BY DEF InOrder, Ended, AtEnd, Plain, Data
<1>6. Lossless(s)' BY <1>1, <1>4, <1>5 DEF Plain, Sound, Lossless, Data
<1> QED BY <1>2, <1>3, <1>6

(* Which steps are plain. *)
LEMMA PlainActs ==
  ASSUME TypeOK, NEW s \in Stream, Acts(s),
         ~(OpenRegister(s) /\ ~closed), ~Read(s), ~CloseSend(s), ~TeardownFail(s)
  PROVE  Plain(s)
<1>1. CASE OpenRegister(s)
  BY <1>1, OpenRegisterDoes DEF Plain, Looks, OpenRegister, Early
<1>2. CASE OpenHeader(s)
  BY <1>2, OpenHeaderDoes DEF Plain, Looks, OpenHeader, Early
<1>3. CASE OpenPayload(s)
  BY <1>3, OpenPayloadDoes DEF Plain, Looks, OpenPayload, Early
<1>4. CASE OpenReady(s)
  BY <1>4, OpenReadyDoes DEF Plain, Looks, OpenReady, Early
<1>5. CASE OpenCancelled(s)
  <2>1. reaper' = reaper /\ streams' = streams \ {s} BY <1>5 DEF OpenCancelled
  <2> QED BY <1>5, <2>1, OpenCancelledDoes DEF Plain, Looks, Early
<1>6. CASE Cancel(s) \/ WriteStep(s)
  <2>1. UNCHANGED <<streams, reaper>> BY <1>6 DEF Cancel, WriteStep, WriteHeader, WritePayload
  <2>2. Looks(st'[s], st[s].op, st[s].ready, st[s].failErr, st[s].closed, st[s].remote, st[s].cl)
        /\ Data(st'[s], st[s].got, st[s].writes, st[s].end)
    BY <1>6, CancelDoes, WriteHeaderDoes, WritePayloadDoes DEF WriteStep
  <2> QED BY <2>1, <2>2 DEF Plain, Looks
<1>7. CASE CloseRemove(s)
  <2>1. reaper' = reaper /\ streams' = streams \ {s} BY <1>7 DEF CloseRemove
  <2>2. Looks(st'[s], st[s].op, st[s].ready, st[s].failErr, st[s].closed, st[s].remote, "done")
        /\ Data(st'[s], st[s].got, st[s].writes, st[s].end)
    BY <1>7, CloseRemoveDoes
  <2> QED BY <2>1, <2>2 DEF Plain, Looks
<1> QED BY <1>1, <1>2, <1>3, <1>4, <1>5, <1>6, <1>7 DEF Acts, OpenStep

(* Read hands over the next datum, in order. *)
LEMMA ReadInOrder ==
  ASSUME TypeOK, NEW s \in Stream, st[s].writes # <<>>, InOrder(s), st' \in [Stream -> StreamState],
         Data(st'[s], Append(st[s].got, Head(st[s].writes)), Tail(st[s].writes), st[s].end)
  PROVE  /\ InOrder(s)'
         /\ Len(st'[s].got) + Len(st'[s].writes) = Len(st[s].got) + Len(st[s].writes)
<1>1. st[s].got \in Seq(Nat) /\ st[s].writes \in Seq(Nat) BY DEF TypeOK, StreamState
<1>2. PICK g \in Seq(Nat), w \in Seq(Nat) : g = st[s].got /\ w = st[s].writes BY <1>1
<1>3. w # <<>> /\ st'[s].got = Append(g, Head(w)) /\ st'[s].writes = Tail(w) BY <1>2 DEF Data
<1>4. /\ \A i \in 1..Len(g) : g[i] = i
      /\ \A i \in 1..Len(w) : w[i] = Len(g) + i
  BY <1>2 DEF InOrder, Counts
<1>5. PICK x, y : x = Append(g, Head(w)) /\ y = Tail(w) OBVIOUS
<1>6. /\ Len(w) \in Nat \ {0} /\ Len(y) = Len(w) - 1 /\ Head(w) = w[1] /\ Head(w) \in Nat
      /\ \A i \in 1..Len(y) : y[i] = w[i + 1]
  BY <1>3, <1>5, TailPoints
<1>7. /\ Len(g) \in Nat /\ Len(x) = Len(g) + 1 /\ x[Len(g) + 1] = Head(w)
      /\ \A i \in 1..Len(g) : x[i] = g[i]
  BY <1>5, <1>6, AppendPoints
<1>8. Head(w) = Len(g) + 1 BY <1>4, <1>6, <1>7
<1>9. \A i \in 1..Len(x) : x[i] = i
  <2>1. \A i \in 1..Len(x) : i \in 1..Len(g) \/ i = Len(g) + 1 BY <1>7
  <2> QED BY <1>4, <1>7, <1>8, <2>1
<1>10. \A i \in 1..Len(y) : y[i] = Len(x) + i
  <2>1. \A i \in 1..Len(y) : i + 1 \in 1..Len(w) BY <1>6
  <2>2. \A i \in 1..Len(y) : y[i] = Len(g) + (i + 1) BY <1>4, <1>6, <2>1
  <2> QED BY <1>7, <2>2
<1>11. st'[s].got = x /\ st'[s].writes = y BY <1>3, <1>5
<1>12. InOrder(s)' BY <1>9, <1>10, <1>11 DEF InOrder, Counts
<1>13. Len(x) + Len(y) = Len(g) + Len(w) BY <1>6, <1>7
<1> QED BY <1>2, <1>11, <1>12, <1>13

(* Read keeps the order, and reports EOF only when all is there. *)
LEMMA ReadOwn ==
  ASSUME TypeOK, NEW s \in Stream, UNCHANGED <<toHost, pump, dev>>, Read(s), Sound(s)
  PROVE  Fresh(s)' /\ Begun(s)' /\ Lossless(s)'
<1>0. /\ \A cmd : InHand(cmd, s)' <=> InHand(cmd, s)
      /\ InFlight(s)' <=> InFlight(s)
  BY Same
<1>1. /\ Only(s) /\ UNCHANGED <<streams, reaper>> /\ st[s].op = "open" /\ st[s].end = "no"
      /\ Looks(st'[s], st[s].op, st[s].ready, st[s].failErr, st[s].closed, st[s].remote, st[s].cl)
  BY ReadDoes DEF Read
<1>2. Fresh(s)' BY <1>1 DEF Fresh, Looks
<1>3. Begun(s)' BY <1>1 DEF Sound, Begun, Looks
<1>4. Ended(s)' <=> Ended(s) BY <1>1 DEF Ended, Looks
<1>5. CASE /\ st[s].writes # <<>>
           /\ Data(st'[s], Append(st[s].got, Head(st[s].writes)), Tail(st[s].writes), st[s].end)
  <2>1. InOrder(s) => InOrder(s)' /\ (All(s)' <=> All(s))
    <3>1. st' \in [Stream -> StreamState] BY <1>1 DEF Only
    <3>2. ASSUME InOrder(s)
          PROVE  /\ InOrder(s)'
                 /\ Len(st'[s].got) + Len(st'[s].writes) = Len(st[s].got) + Len(st[s].writes)
      BY <1>5, <3>1, <3>2, ReadInOrder
    <3> QED BY <1>0, <3>2 DEF All
  <2>2. st'[s].end = "no" BY <1>1, <1>5 DEF Data
  <2> QED BY <1>0, <1>1, <1>2, <1>3, <1>4, <2>1, <2>2 DEF Sound, Lossless, Looks
<1>6. ASSUME NEW e \in {"EOF"} \cup Error, st[s].writes = <<>>, st[s].closed,
             Data(st'[s], st[s].got, st[s].writes, e), e = "EOF" => st[s].failErr \in Mild
      PROVE  Lossless(s)'
  <2>1. (InOrder(s)' <=> InOrder(s)) /\ (All(s)' <=> All(s)) BY <1>0, <1>6 DEF InOrder, All, Data
  <2>2. st[s].cl = "no" /\ e = "EOF" => AtEnd(s)
    <3>1. ASSUME st[s].cl = "no", e = "EOF" PROVE All(s) /\ ~InFlight(s) /\ dev[s].state = "closed"
      BY <1>6, <3>1 DEF Sound, Lossless, Ended
    <3>2. st[s].got \in Seq(Nat) /\ Len(st[s].writes) = 0 BY <1>6 DEF TypeOK, StreamState
    <3>3. Len(st[s].got) \in Nat BY <3>2
    <3> QED BY <3>1, <3>2, <3>3 DEF All, AtEnd
  <2>3. AtEnd(s)' <=> AtEnd(s) BY <1>6 DEF AtEnd, Data
  <2>4. st'[s].end = e BY <1>6 DEF Data
  <2> QED BY <1>0, <1>1, <1>4, <2>1, <2>2, <2>3, <2>4 DEF Sound, Lossless, Looks
<1> QED BY <1>2, <1>3, <1>5, <1>6, ReadDoes DEF Mild

(* A stream that is registered has had no data; what Close and a teardown   *)
(* end is not taken for the end of the data.                                *)
LEMMA SpecialOwn ==
  ASSUME TypeOK, Peers, Woken, NEW s \in Stream, UNCHANGED <<toHost, pump, dev>>, Sound(s),
         (OpenRegister(s) /\ ~closed) \/ CloseSend(s) \/ TeardownFail(s)
  PROVE  Fresh(s)' /\ Begun(s)' /\ Lossless(s)'
<1>0. /\ \A cmd : InHand(cmd, s)' <=> InHand(cmd, s)
      /\ InFlight(s)' <=> InFlight(s)
  BY Same
<1>1. CASE OpenRegister(s) /\ ~closed
  <2>1. /\ Looks(st'[s], "header", st[s].ready, st[s].failErr, st[s].closed, st[s].remote, st[s].cl)
        /\ Data(st'[s], st[s].got, st[s].writes, st[s].end) /\ st[s].op = "idle"
    BY <1>1, OpenRegisterDoes DEF OpenRegister
  <2>2. Fresh(s)' /\ Begun(s)' BY <2>1 DEF Sound, Fresh, Begun, Looks, Early
  <2>3. (InOrder(s)' <=> InOrder(s)) /\ (Ended(s)' <=> Ended(s)) /\ (AtEnd(s)' <=> AtEnd(s))
        /\ (All(s)' <=> All(s))
    BY <1>0, <2>1 DEF InOrder, Ended, AtEnd, All, Looks, Data
  <2>4. All(s)
    <3>1. dev[s].sent = 0 /\ ~About(toHost, s) /\ ~InHand("WRTE", s)
      BY <2>1 DEF Sound, Begun, Early, InHand
    <3>2. ~InFlight(s) BY <3>1 DEF InFlight, Comes, Sends, About
    <3>3. Len(st[s].got) = 0 /\ Len(st[s].writes) = 0 BY <2>1 DEF Sound, Fresh
    <3> QED BY <3>1, <3>2, <3>3 DEF All
  <2>5. st[s].failErr \in Mild BY <2>1 DEF Sound, Fresh, Mild
  <2>6. Lossless(s)' BY <1>0, <2>1, <2>3, <2>4, <2>5 DEF Sound, Lossless, Looks, Data
  <2> QED BY <2>2, <2>6
<1>2. CASE CloseSend(s)
  <2>1. Looks(st'[s], st[s].op, st[s].ready, st[s].failErr, TRUE, st[s].remote, "remove")
        /\ st[s].op = "open" /\ UNCHANGED <<streams, reaper>>
    BY <1>2, CloseSendDoes DEF CloseSend
  <2> QED BY <2>1 DEF Sound, Fresh, Begun, Lossless, Looks
<1>3. CASE TeardownFail(s)
  <2>1. /\ Looks(st'[s], st[s].op, TRUE, reaper.err, TRUE, st[s].remote, st[s].cl)
        /\ Data(st'[s], st[s].got, st[s].writes, st[s].end)
    BY <1>3, TeardownFailDoes
  <2>2. /\ streams' = {} /\ s \in reaper.left /\ reaper.err \notin Mild
    <3>1. reaper.pc = "fail" /\ s \in reaper.left /\ streams' = streams BY <1>3 DEF TeardownFail
    <3>2. streams = {} BY <3>1 DEF Woken
    <3>3. reaper.err \notin Mild BY <3>1 DEF Peers, Mild
    <3> QED BY <3>1, <3>2, <3>3
  <2>3. Fresh(s)' /\ Begun(s)' BY <2>1, <2>2 DEF Sound, Fresh, Begun, Looks
  <2>4. (InOrder(s)' <=> InOrder(s)) /\ ~Ended(s)' /\ (AtEnd(s)' <=> AtEnd(s))
        /\ (All(s)' <=> All(s))
    <3>1. ~Ended(s)' BY <2>1, <2>2 DEF Ended, Looks
    <3>2. All(s)' <=> All(s) BY <1>0, <2>1 DEF All, Data
    <3>3. (InOrder(s)' <=> InOrder(s)) /\ (AtEnd(s)' <=> AtEnd(s))
      BY <2>1 DEF InOrder, AtEnd, Data
    <3> QED BY <3>1, <3>2, <3>3
  <2>5. Lossless(s)' BY <1>0, <2>1, <2>2, <2>4 DEF Sound, Lossless, Looks, Data
  <2> QED BY <2>3, <2>5
<1> QED BY <1>1, <1>2, <1>3

(* The steps of the host's callers. *)
LEMMA ActsSound ==
  ASSUME TypeOK, Peers, Woken, \A r \in Stream : Sound(r), NEW s \in Stream, Acts(s)
  PROVE  \A r \in Stream : Sound(r)'
<1>1. UNCHANGED <<toHost, pump, dev>> /\ Wrote(s) BY ActsWrites
<1>2. /\ Only(s)
      /\ st'[s].op \in Early => st[s].op \in Early
      /\ st[s].cl # "no" => st'[s].cl # "no"
      /\ CloseSend(s) => st'[s].cl # "no"
      /\ OpenPayload(s) /\ Up => st[s].op = "payload" /\ st'[s].op = "select"
  <2>1. Only(s)
    BY OpenRegisterDoes, OpenHeaderDoes, OpenPayloadDoes, OpenReadyDoes, OpenCancelledDoes,
       CancelDoes, ReadDoes, WriteHeaderDoes, WritePayloadDoes, CloseSendDoes, CloseRemoveDoes,
       TeardownFailDoes DEF Acts, OpenStep, WriteStep
  <2>2. CASE OpenRegister(s) /\ ~closed
    BY <2>1, <2>2, OpenRegisterDoes DEF OpenRegister, Looks, Early, CloseSend, OpenPayload
  <2>3. CASE Read(s)
    <3>1. Looks(st'[s], st[s].op, st[s].ready, st[s].failErr, st[s].closed, st[s].remote, st[s].cl)
          /\ st[s].op = "open"
      BY <2>3, ReadDoes DEF Read
    <3>2. ~OpenPayload(s) BY <3>1 DEF OpenPayload
    <3>3. CloseSend(s) => st'[s].cl # "no" BY CloseSendDoes DEF Looks
    <3> QED BY <2>1, <3>1, <3>2, <3>3 DEF Looks
  <2>4. CASE CloseSend(s)
    <3>1. Looks(st'[s], st[s].op, st[s].ready, st[s].failErr, TRUE, st[s].remote, "remove")
          /\ st[s].op = "open"
      BY <2>4, CloseSendDoes DEF CloseSend
    <3>2. ~OpenPayload(s) BY <3>1 DEF OpenPayload
    <3> QED BY <2>1, <3>1, <3>2 DEF Looks
  <2>5. CASE TeardownFail(s)
    <3>1. Looks(st'[s], st[s].op, TRUE, reaper.err, TRUE, st[s].remote, st[s].cl)
      BY <2>5, TeardownFailDoes
    <3>2. CloseSend(s) => st'[s].cl # "no" BY CloseSendDoes DEF Looks
    <3>3. OpenPayload(s) /\ Up => st[s].op = "payload" /\ st'[s].op = "select"
      BY OpenPayloadDoes DEF OpenPayload, Looks
    <3> QED BY <2>1, <3>1, <3>2, <3>3 DEF Looks
  <2>6. CASE ~(OpenRegister(s) /\ ~closed) /\ ~Read(s) /\ ~CloseSend(s) /\ ~TeardownFail(s)
    <3>1. Plain(s) BY <2>6, PlainActs
    <3>2. OpenPayload(s) /\ Up => st[s].op = "payload" /\ st'[s].op = "select"
      BY OpenPayloadDoes DEF OpenPayload, Looks
    <3> QED BY <2>1, <2>6, <3>1, <3>2 DEF Plain
  <2> QED BY <2>2, <2>3, <2>4, <2>5, <2>6
<1>3. Sound(s)'
  <2>1. Out(s)' BY <1>1, <1>2, OutOwn DEF Sound
  <2>2. OneOut(s)' /\ Last(s)' BY <1>1, Same DEF Sound
  <2>3. Fresh(s)' /\ Begun(s)' /\ Lossless(s)'
    BY <1>1, PlainActs, PlainOwn, ReadOwn, SpecialOwn
  <2> QED BY <2>1, <2>2, <2>3 DEF Sound
<1> QED BY <1>2, <1>3, ActsOthers
-----------------------------------------------------------------------------
(* The pump dispatches a message for stream s: what it holds afterwards. *)
Dispatch(s) ==
  /\ pump.pc = "run" /\ pump.m.s = s /\ pump'.m = pump.m
  /\ pump'.pc = IF pump.m.cmd = "WRTE" THEN "ack" ELSE "read"
  /\ Only(s) /\ UNCHANGED <<streams, reaper, toDevice, toHost, dev, pending>>

(* The pump's dispatch is one of three, on one stream. *)
LEMMA PumpRunDispatch ==
  ASSUME TypeOK, PumpRun
  PROVE  \E s \in Stream : /\ Dispatch(s)
                           /\ \/ pump.m.cmd = "OKAY" /\ onReady(s)
                              \/ pump.m.cmd = "WRTE" /\ onWrite(s, pump.m.n) /\ pump.m.n \in Nat
                              \/ pump.m.cmd = "CLSE" /\ onClose(s)
<1>1. PICK s \in Stream, n \in Nat : s = pump.m.s /\ n = pump.m.n BY HandType DEF PumpRun
<1>2. pump.pc = "run" /\ UNCHANGED <<streams, reaper, toDevice, toHost, dev, pending>>
  BY DEF PumpRun, external
<1>3. pump'.m = pump.m /\ pump'.pc = IF pump.m.cmd = "WRTE" THEN "ack" ELSE "read"
  <2>1. pump \in PumpType BY DEF TypeOK, PumpType
  <2> QED BY <2>1 DEF PumpRun, PumpType
<1>4. \/ pump.m.cmd = "OKAY" /\ onReady(s)
      \/ pump.m.cmd = "WRTE" /\ onWrite(s, n)
      \/ pump.m.cmd = "CLSE" /\ onClose(s)
  BY <1>1, PumpRunDoes
<1>5. Only(s) BY <1>4, onReadyDoes, onWriteDoes, onCloseDoes
<1> QED BY <1>1, <1>2, <1>3, <1>4, <1>5 DEF Dispatch

(* Streams other than the message's. *)
LEMMA DispatchOthers ==
  ASSUME NEW s \in Stream, Dispatch(s), NEW r \in Stream, r # s, Sound(r)
  PROVE  Sound(r)'
<1>1. /\ \A cmd : ~InHand(cmd, r) /\ ~InHand(cmd, r)'
      /\ ~Acking(r) /\ ~Acking(r)'
  BY DEF Dispatch, InHand, Acking
<1>2. InFlight(r)' <=> InFlight(r) BY <1>1 DEF InFlight, Dispatch
<1>3. st'[r] = st[r] BY DEF Dispatch, Only
<1>4. Fresh(r)' BY <1>3 DEF Fresh, Sound, Dispatch
<1>5. Begun(r)' BY <1>3 DEF Begun, Sound, Dispatch
<1>6. Out(r)' BY <1>1, <1>2, <1>3 DEF Out, Sound, Dispatch
<1>7. OneOut(r)' BY <1>1, <1>2 DEF OneOut, Sound, Dispatch
<1>8. Last(r)' BY <1>1 DEF Last, Sound, Dispatch
<1>9. All(r)' <=> All(r) BY <1>2, <1>3 DEF All, Dispatch
<1>10. Lossless(r)'
  BY <1>1, <1>2, <1>3, <1>9 DEF Lossless, Sound, Dispatch, InOrder, Ended, AtEnd
<1> QED BY <1>4, <1>5, <1>6, <1>7, <1>8, <1>10 DEF Sound

(* The stream of the message, but for its data: it was begun, so it is not  *)
(* fresh, and its data are now to be acknowledged.                          *)
LEMMA DispatchOwn ==
  ASSUME NEW s \in Stream, Dispatch(s), Sound(s),
         st'[s].op = st[s].op, st'[s].cl = st[s].cl
  PROVE  /\ Fresh(s)' /\ Begun(s)' /\ Out(s)' /\ OneOut(s)' /\ Last(s)'
         /\ \A cmd : ~InHand(cmd, s)'
         /\ \A cmd : InHand(cmd, s) <=> pump.m.cmd = cmd
<1>1. dev[s].state # "none" /\ st[s].op \notin Early
  BY DEF Dispatch, Sound, Begun
<1>2. /\ \A cmd : ~InHand(cmd, s)'
      /\ \A cmd : InHand(cmd, s) <=> pump.m.cmd = cmd
      /\ Acking(s)' <=> pump.m.cmd = "WRTE"
      /\ ~Acking(s)
  BY DEF Dispatch, InHand, Acking
<1>3. /\ InFlight(s)' <=> Comes(toHost, "WRTE", s)
      /\ InFlight(s) <=> Comes(toHost, "WRTE", s) \/ pump.m.cmd = "WRTE"
  BY <1>2 DEF InFlight, Dispatch
<1>4. Fresh(s)' BY <1>1 DEF Fresh, Early
<1>5. Begun(s)' BY <1>1 DEF Begun, Dispatch
<1>6. Out(s)' BY <1>2, <1>3 DEF Out, Sound, Dispatch
<1>7. OneOut(s)' BY <1>2, <1>3 DEF OneOut, Sound, Dispatch
<1>8. Last(s)' BY <1>2 DEF Last, Sound, Dispatch
<1> QED BY <1>2, <1>4, <1>5, <1>6, <1>7, <1>8

(* onWrite appends what comes next, or the stream has failed. *)
LEMMA GrowsInOrder ==
  ASSUME NEW g \in Seq(Nat), NEW w \in Seq(Nat), NEW n, n = Len(g) + Len(w) + 1,
         NEW y, y = Append(w, n), Counts(g, w)
  PROVE  Counts(g, y) /\ Len(g) + Len(y) = n
<1>0. Len(g) \in Nat /\ Len(w) \in Nat /\ n \in Nat
  <2>1. Len(g) \in Nat /\ Len(w) \in Nat OBVIOUS
  <2> QED BY <2>1
<1>1. /\ Len(y) = Len(w) + 1 /\ y[Len(w) + 1] = n
      /\ \A i \in 1..Len(w) : y[i] = w[i]
  BY <1>0, AppendPoints
<1>2. \A i \in 1..Len(w) : w[i] = Len(g) + i BY DEF Counts
<1>3. \A i \in 1..Len(y) : i \in 1..Len(w) \/ i = Len(w) + 1 BY <1>0, <1>1
<1>4. n = Len(g) + (Len(w) + 1) BY <1>0
<1>5. \A i \in 1..Len(y) : y[i] = Len(g) + i BY <1>1, <1>2, <1>3, <1>4
<1>6. Len(g) + Len(y) = n BY <1>0, <1>1
<1> QED BY <1>5, <1>6 DEF Counts

(* The same for the buffer of stream s. *)
LEMMA WriteInOrder ==
  ASSUME TypeOK, NEW s \in Stream, NEW n, InOrder(s),
         n = Len(st[s].got) + Len(st[s].writes) + 1,
         Data(st'[s], st[s].got, Append(st[s].writes, n), st[s].end)
  PROVE  InOrder(s)' /\ Len(st'[s].got) + Len(st'[s].writes) = n
<1>1. st[s].got \in Seq(Nat) /\ st[s].writes \in Seq(Nat) BY DEF TypeOK, StreamState
<1>2. Counts(st[s].got, st[s].writes) BY DEF InOrder
<1>3. st'[s].got = st[s].got /\ st'[s].writes = Append(st[s].writes, n) BY DEF Data
<1>4. Counts(st[s].got, st'[s].writes) /\ Len(st[s].got) + Len(st'[s].writes) = n
  <2>1. PICK g \in Seq(Nat), w \in Seq(Nat) : g = st[s].got /\ w = st[s].writes BY <1>1
  <2>2. PICK y : y = st'[s].writes OBVIOUS
  <2>3. n = Len(g) + Len(w) + 1 /\ y = Append(w, n) /\ Counts(g, w) BY <1>2, <1>3, <2>1, <2>2
  <2>4. Counts(g, y) /\ Len(g) + Len(y) = n BY <2>3, GrowsInOrder, Zenon
  <2> QED BY <2>1, <2>2, <2>4
<1> QED BY <1>3, <1>4, Zenon DEF InOrder

(* Data are buffered in order; a closed stream that drops them has failed. *)
LEMMA DispatchData ==
  ASSUME TypeOK, NEW s \in Stream, NEW n \in Nat, Dispatch(s), Sound(s),
         pump.m.cmd = "WRTE", n = pump.m.n, onWrite(s, n)
  PROVE  Sound(s)'
<1>0. /\ Looks(st'[s], st[s].op, st[s].ready, st[s].failErr, st[s].closed, st[s].remote, st[s].cl)
      /\ \/ Data(st'[s], st[s].got, Append(st[s].writes, n), st[s].end)
         \/ st[s].closed /\ Data(st'[s], st[s].got, st[s].writes, st[s].end)
  BY onWriteDoes
<1>1. /\ Fresh(s)' /\ Begun(s)' /\ Out(s)' /\ OneOut(s)' /\ Last(s)'
      /\ \A cmd : ~InHand(cmd, s)'
      /\ \A cmd : InHand(cmd, s) <=> pump.m.cmd = cmd
  BY <1>0, DispatchOwn DEF Looks
<1>2. InHand("WRTE", s) /\ InFlight(s) /\ ~InFlight(s)' /\ n = dev[s].sent
  BY <1>1 DEF InFlight, Sound, OneOut, Dispatch
<1>3. ASSUME st[s].cl = "no"
      PROVE  /\ InOrder(s) /\ ~Ended(s)
             /\ dev[s].sent = Len(st[s].got) + Len(st[s].writes) + 1
  BY <1>2, <1>3 DEF Sound, Lossless, All
<1>4. Lossless(s)'
  <2>0. UNCHANGED <<streams, dev>> BY DEF Dispatch
  <2>1. CASE st[s].cl # "no" BY <1>0, <2>0, <2>1 DEF Looks, Sound, Lossless
  <2>2. CASE st[s].cl = "no" /\ Data(st'[s], st[s].got, Append(st[s].writes, n), st[s].end)
    <3>1. InOrder(s)' /\ Len(st'[s].got) + Len(st'[s].writes) = n
      BY <1>2, <1>3, <2>2, WriteInOrder
    <3>2. st[s].got \in Seq(Nat) /\ st[s].writes \in Seq(Nat) BY DEF TypeOK, StreamState
    <3>3. Len(st[s].got) \in Nat /\ Len(st[s].writes) \in Nat BY <3>2
    <3>4. ~AtEnd(s)
      <4>1. dev[s].sent = Len(st[s].got) + Len(st[s].writes) + 1 BY <1>3, <2>2
      <4>2. PICK a \in Nat, b \in Nat : a = Len(st[s].got) /\ b = Len(st[s].writes) BY <3>3
      <4>3. a # a + b + 1 OBVIOUS
      <4> QED BY <4>1, <4>2, <4>3 DEF AtEnd
    <3>5. st'[s].end # "EOF" BY <2>2, <3>4 DEF Data, Sound, Lossless
    <3>6. ~Ended(s)' BY <1>0, <1>3, <2>2 DEF Ended, Looks
    <3>7. All(s)'
      <4>1. dev'[s].sent = n /\ n + 0 = n BY <1>2, <2>0
      <4> QED BY <1>2, <3>1, <4>1 DEF All
    <3> QED BY <1>0, <2>0, <3>1, <3>5, <3>6, <3>7 DEF Looks, Sound, Lossless
  <2>3. CASE st[s].cl = "no" /\ st[s].closed /\ Data(st'[s], st[s].got, st[s].writes, st[s].end)
    <3>1. st[s].failErr \notin Mild /\ ~Ended(s)' BY <1>0, <1>3, <2>3 DEF Ended, Looks
    <3>2. s \notin streams BY <3>1 DEF Sound, Lossless
    <3>3. (InOrder(s)' <=> InOrder(s)) /\ (AtEnd(s)' <=> AtEnd(s))
      BY <2>0, <2>3 DEF InOrder, AtEnd, Data
    <3> QED BY <1>0, <1>1, <2>0, <2>3, <3>1, <3>2, <3>3 DEF Looks, Data, Sound, Lossless
  <2> QED BY <1>0, <2>1, <2>2, <2>3
<1> QED BY <1>1, <1>4 DEF Sound

(* An OKAY and a CLSE. *)
LEMMA DispatchRest ==
  ASSUME TypeOK, NEW s \in Stream, Dispatch(s), Sound(s),
         (pump.m.cmd = "OKAY" /\ onReady(s)) \/ (pump.m.cmd = "CLSE" /\ onClose(s))
  PROVE  Sound(s)'
<1>0. /\ Data(st'[s], st[s].got, st[s].writes, st[s].end)
      /\ st'[s].op = st[s].op /\ st'[s].cl = st[s].cl
      /\ \/ pump.m.cmd = "OKAY" /\ st'[s].closed = st[s].closed /\ st'[s].failErr = st[s].failErr
         \/ pump.m.cmd = "CLSE" /\ (st'[s].failErr = st[s].failErr \/ st'[s].failErr \in Mild)
  BY onReadyDoes, onCloseDoes DEF Looks, Mild
<1>1. /\ Fresh(s)' /\ Begun(s)' /\ Out(s)' /\ OneOut(s)' /\ Last(s)'
      /\ \A cmd : ~InHand(cmd, s)'
      /\ \A cmd : InHand(cmd, s) <=> pump.m.cmd = cmd
  BY <1>0, DispatchOwn
<1>2. UNCHANGED <<streams, dev>> /\ (InFlight(s)' <=> InFlight(s))
  BY <1>0, <1>1 DEF InFlight, Dispatch
<1>3. (InOrder(s)' <=> InOrder(s)) /\ (AtEnd(s)' <=> AtEnd(s)) /\ (All(s)' <=> All(s))
  BY <1>0, <1>2 DEF InOrder, AtEnd, All, Data
<1>4. ASSUME st[s].cl = "no", Ended(s)'
      PROVE  All(s) /\ ~InFlight(s) /\ dev[s].state = "closed"
  <2>1. CASE pump.m.cmd = "OKAY" BY <1>0, <1>4, <2>1 DEF Ended, Sound, Lossless
  <2>2. CASE pump.m.cmd = "CLSE"
    <3>1. InHand("CLSE", s) /\ ~InHand("WRTE", s) BY <1>1, <2>2
    <3> QED BY <1>4, <3>1 DEF Sound, Lossless, Last, InFlight
  <2> QED BY <1>0, <2>1, <2>2
<1>5. s \in streams' => st'[s].failErr \in Mild BY <1>0, <1>2 DEF Sound, Lossless
<1>6. Lossless(s)' BY <1>0, <1>1, <1>2, <1>3, <1>4, <1>5 DEF Sound, Lossless, Data
<1> QED BY <1>1, <1>6 DEF Sound

(* The pump's dispatch keeps every stream sound. *)
LEMMA PumpRunSound ==
  ASSUME TypeOK, \A r \in Stream : Sound(r), PumpRun
  PROVE  \A r \in Stream : Sound(r)'
<1>1. PICK s \in Stream : /\ Dispatch(s)
                          /\ \/ pump.m.cmd = "OKAY" /\ onReady(s)
                             \/ pump.m.cmd = "WRTE" /\ onWrite(s, pump.m.n) /\ pump.m.n \in Nat
                             \/ pump.m.cmd = "CLSE" /\ onClose(s)
  BY PumpRunDispatch
<1>2. Sound(s)' BY <1>1, DispatchData, DispatchRest
<1> QED BY <1>1, <1>2, DispatchOthers
-----------------------------------------------------------------------------
(* The pump stops, or a teardown begins or ends. *)
LEMMA Settles ==
  ASSUME UNCHANGED <<st, dev, toHost, toDevice>>,
         pump' = pump \/ (pump'.pc \in {"reap", "dead"} /\ (pump.pc = "read" \/ streams' = {})),
         NEW r \in Stream, r \in streams' => r \in streams,
         r \in reaper'.left => r \in reaper.left \/ r \in streams,
         Sound(r)
  PROVE  Sound(r)'
<1>1. CASE pump' = pump
  <2>1. /\ \A cmd : InHand(cmd, r)' <=> InHand(cmd, r)
        /\ Acking(r)' <=> Acking(r)
        /\ InFlight(r)' <=> InFlight(r)
        /\ OneOut(r)' /\ Last(r)'
    BY <1>1, Same DEF Sound
  <2>2. Fresh(r)' BY DEF Sound, Fresh
  <2>3. Begun(r)' BY <1>1 DEF Sound, Begun
  <2>4. Out(r)' BY <2>1 DEF Sound, Out
  <2>5. All(r)' <=> All(r) BY <2>1 DEF All
  <2>6. Lossless(r)' BY <2>1, <2>5 DEF Sound, Lossless, InOrder, Ended, AtEnd
  <2> QED BY <2>1, <2>2, <2>3, <2>4, <2>6 DEF Sound
<1>2. CASE pump'.pc \in {"reap", "dead"} /\ (pump.pc = "read" \/ streams' = {})
  <2>1. /\ \A cmd : ~InHand(cmd, r)'
        /\ ~Acking(r)'
        /\ InFlight(r)' => InFlight(r)
        /\ pump.pc = "read" => (InFlight(r)' <=> InFlight(r))
    BY <1>2 DEF InHand, Acking, InFlight
  <2>2. Fresh(r)' BY DEF Sound, Fresh
  <2>3. Begun(r)' BY <1>2 DEF Sound, Begun
  <2>4. Out(r)' BY <2>1 DEF Sound, Out
  <2>5. OneOut(r)' BY <2>1 DEF Sound, OneOut
  <2>6. Last(r)' BY <2>1 DEF Sound, Last
  <2>7. (InFlight(r)' <=> InFlight(r)) => (All(r)' <=> All(r)) BY DEF All
  <2>8. Lossless(r)' BY <1>2, <2>1, <2>7 DEF Sound, Lossless, InOrder, Ended, AtEnd
  <2> QED BY <2>2, <2>3, <2>4, <2>5, <2>6, <2>8 DEF Sound
<1> QED BY <1>1, <1>2

(* The end of the pump and the teardown's begin and end. *)
LEMMA StopsSound ==
  ASSUME TypeOK, Woken, \A r \in Stream : Sound(r), PumpError \/ TeardownEnd \/ Shut
  PROVE  \A r \in Stream : Sound(r)'
<1>0. pump \in PumpType /\ reaper \in ReaperType BY DEF TypeOK, PumpType, ReaperType
<1>1. UNCHANGED <<st, dev, toHost, toDevice>>
  BY DEF PumpError, TeardownEnd, Shut, external
<1>2. /\ pump' = pump \/ (pump'.pc \in {"reap", "dead"} /\ (pump.pc = "read" \/ streams' = {}))
      /\ \A r \in Stream : /\ r \in streams' => r \in streams
                           /\ r \in reaper'.left => r \in reaper.left \/ r \in streams
  <2>1. CASE PumpError
    <3>1. pump.pc = "read" /\ PumpStops("read") BY <2>1 DEF PumpError
    <3>2. CASE closed
      <4>1. pump'.pc = "dead" BY <1>0, <3>1, <3>2 DEF PumpStops, PumpType
      <4> QED BY <3>1, <3>2, <4>1 DEF PumpStops
    <3>3. CASE ~closed
      <4>1. pump'.pc = "reap" BY <1>0, <3>1, <3>3 DEF PumpStops, PumpType
      <4> QED BY <3>1, <3>3, <4>1 DEF PumpStops, TeardownBegin
    <3> QED BY <3>2, <3>3
  <2>2. CASE TeardownEnd
    <3>1. streams' = {} /\ streams' = streams
      <4>1. reaper.pc = "fail" /\ streams' = streams BY <2>2 DEF TeardownEnd
      <4> QED BY <4>1 DEF Woken
    <3>2. reaper'.left = reaper.left BY <1>0, <2>2 DEF TeardownEnd, ReaperType
    <3>3. pump' = pump \/ pump'.pc = "dead"
      <4>1. [pump EXCEPT !.pc = "dead"].pc = "dead" BY <1>0 DEF PumpType
      <4> QED BY <2>2, <4>1 DEF TeardownEnd
    <3> QED BY <3>1, <3>2, <3>3
  <2>3. CASE Shut BY <2>3 DEF Shut, TeardownBegin
  <2> QED BY <2>1, <2>2, <2>3
<1> QED BY <1>1, <1>2, Settles

(* The acknowledgement. *)
LEMMA AckSound ==
  ASSUME TypeOK, \A r \in Stream : Sound(r), PumpAck, NEW r \in Stream
  PROVE  Sound(r)'
<1>0. pump \in PumpType BY DEF TypeOK, PumpType
<1>1. PICK s \in Stream : s = pump.m.s BY HandType DEF PumpAck
<1>2. /\ UNCHANGED <<st, dev, toHost, streams, reaper>> /\ pump.pc = "ack" /\ pump'.pc = "read"
      /\ toDevice' = toDevice \/ toDevice' = Append(toDevice, Header("OKAY", s))
  BY <1>0, <1>1 DEF PumpAck, Sent, PumpType, external
<1>3. /\ \A cmd : ~InHand(cmd, r)' /\ ~InHand(cmd, r)
      /\ ~Acking(r)' /\ (Acking(r) <=> r = s)
      /\ InFlight(r)' <=> InFlight(r)
  BY <1>1, <1>2 DEF InHand, Acking, InFlight
<1>4. Fresh(r)' BY <1>2 DEF Sound, Fresh
<1>5. Begun(r)' BY <1>2 DEF Sound, Begun
<1>6. OneOut(r)' BY <1>2, <1>3 DEF Sound, OneOut
<1>7. Last(r)' BY <1>2, <1>3 DEF Sound, Last
<1>8. All(r)' <=> All(r) BY <1>2, <1>3 DEF All
<1>9. Lossless(r)' BY <1>2, <1>3, <1>8 DEF Sound, Lossless, InOrder, Ended, AtEnd
<1>10. Out(r)'
  <2>1. CASE toDevice' = toDevice BY <1>2, <1>3, <2>1 DEF Sound, Out
  <2>2. CASE toDevice' = Append(toDevice, Header("OKAY", s))
    <3>1. toDevice \in Seq(Chunk) /\ Header("OKAY", s) \in Chunk BY ChunkTypes DEF TypeOK
    <3>0. PICK p : p = toDevice' OBVIOUS
    <3>2. PICK k \in Chunk : k = Header("OKAY", s) BY <3>1
    <3>3. \A c : /\ OnWay(p, c) <=> OnWay(toDevice, c) \/ c = k
                 /\ Once(toDevice, c) /\ ~(c = k /\ OnWay(toDevice, c)) => Once(p, c)
      <4>1. p = Append(toDevice, k) BY <2>2, <3>0, <3>2
      <4> QED BY <3>1, <4>1, ChunkAppended
    <3>4. k # Payload("OPEN", r) /\ k # Header("CLSE", r) /\ (k = Header("OKAY", r) => r = s)
      BY <3>2 DEF Header, Payload
    <3>5. /\ OnWay(p, Payload("OPEN", r)) <=> OnWay(toDevice, Payload("OPEN", r))
          /\ Once(toDevice, Payload("OPEN", r)) => Once(p, Payload("OPEN", r))
      BY <3>3, <3>4
    <3>6. OnWay(p, Header("CLSE", r)) <=> OnWay(toDevice, Header("CLSE", r))
      BY <3>3, <3>4
    <3>7. /\ OnWay(p, Header("OKAY", r)) => OnWay(toDevice, Header("OKAY", r)) \/ r = s
          /\ Once(toDevice, Header("OKAY", r)) /\ ~OnWay(toDevice, Header("OKAY", r))
               => Once(p, Header("OKAY", r))
          /\ Once(toDevice, Header("OKAY", r)) /\ r # s => Once(p, Header("OKAY", r))
      BY <3>3, <3>4
    <3>8. r = s => dev[r].waits /\ ~InFlight(r) /\ ~OnWay(toDevice, Header("OKAY", r))
      BY <1>3 DEF Sound, OneOut, Out, InFlight
    <3> QED BY <1>2, <1>3, <3>0, <3>5, <3>6, <3>7, <3>8 DEF Sound, Out
  <2> QED BY <1>2, <2>1, <2>2
<1> QED BY <1>4, <1>5, <1>6, <1>7, <1>9, <1>10 DEF Sound

(* A message that is not dispatched to r: it is about another stream, or r  *)
(* is not in the table.                                                     *)
LEMMA Passed ==
  ASSUME NEW r \in Stream, NEW h, Sound(r), UNCHANGED <<st, dev, toDevice>>,
         pump.pc = "read", \A cmd : ~InHand(cmd, r)', ~Acking(r)',
         pump'.pc \in {"run", "ack"} => pump'.m.s # r,
         h.s = r => r \notin streams', r \in streams' => r \in streams,
         r \in reaper'.left => r \in reaper.left \/ r \in streams,
         Comes(toHost, "WRTE", r) <=> Comes(toHost', "WRTE", r) \/ (h.cmd = "WRTE" /\ h.s = r),
         Comes(toHost, "CLSE", r) <=> Comes(toHost', "CLSE", r) \/ (h.cmd = "CLSE" /\ h.s = r),
         About(toHost', r) => About(toHost, r),
         OneData(toHost', r), Numbered(toHost', r, dev[r].sent), ClosedLast(toHost', r)
  PROVE  Sound(r)'
<1>1. \A cmd : ~InHand(cmd, r) BY DEF InHand
<1>2. /\ ~Acking(r)
      /\ InFlight(r) <=> InFlight(r)' \/ (h.cmd = "WRTE" /\ h.s = r)
  BY <1>1 DEF Acking, InFlight
<1>3. Fresh(r)' BY DEF Sound, Fresh
<1>4. Begun(r)' BY DEF Sound, Begun
<1>5. Out(r)' BY <1>2 DEF Sound, Out
<1>6. OneOut(r)' BY <1>2 DEF Sound, OneOut
<1>7. Last(r)' BY DEF Sound, Last
<1>8. (InFlight(r)' <=> InFlight(r)) => (All(r)' <=> All(r)) BY DEF All
<1>9. Lossless(r)' BY <1>2, <1>8 DEF Sound, Lossless, InOrder, Ended, AtEnd
<1> QED BY <1>3, <1>4, <1>5, <1>6, <1>7, <1>9 DEF Sound

(* A message that is dispatched to r stays in flight, in the pump's hands. *)
LEMMA Handed ==
  ASSUME NEW r \in Stream, NEW h, Sound(r), UNCHANGED <<st, dev, toDevice, streams, reaper>>,
         pump.pc = "read", pump'.pc = "run", pump'.m = h, h.s = r, r \in streams,
         Comes(toHost, "WRTE", r) <=> Comes(toHost', "WRTE", r) \/ h.cmd = "WRTE",
         Comes(toHost, "CLSE", r) <=> Comes(toHost', "CLSE", r) \/ h.cmd = "CLSE",
         About(toHost, r),
         OneData(toHost', r), Numbered(toHost', r, dev[r].sent), ClosedLast(toHost', r),
         h.cmd = "WRTE" => ~Comes(toHost', "WRTE", r) /\ h.n = dev[r].sent,
         h.cmd = "CLSE" => ~Comes(toHost', "WRTE", r)
  PROVE  Sound(r)'
<1>1. \A cmd : ~InHand(cmd, r) /\ (InHand(cmd, r)' <=> h.cmd = cmd) BY DEF InHand
<1>2. /\ ~Acking(r) /\ ~Acking(r)'
      /\ InFlight(r) <=> InFlight(r)'
  BY <1>1 DEF Acking, InFlight
<1>3. Fresh(r)' BY DEF Sound, Fresh
<1>4. Begun(r)' BY DEF Sound, Begun
<1>5. Out(r)' BY <1>2 DEF Sound, Out
<1>6. OneOut(r)' BY <1>1, <1>2 DEF Sound, OneOut
<1>7. Last(r)' BY <1>1 DEF Sound, Last
<1>8. All(r)' <=> All(r) BY <1>2 DEF All
<1>9. Lossless(r)' BY <1>2, <1>8 DEF Sound, Lossless, InOrder, Ended, AtEnd
<1> QED BY <1>3, <1>4, <1>5, <1>6, <1>7, <1>9 DEF Sound

(* The pump's read: dispatched, passed over, or the end of the pump. *)
LEMMA ReadSound ==
  ASSUME TypeOK, \A r \in Stream : Sound(r), PumpRead, NEW r \in Stream
  PROVE  Sound(r)'
<1>0. /\ pump \in PumpType /\ pump.pc = "read" /\ toHost \in Seq(Message) /\ toHost # <<>>
      /\ toHost' = Tail(toHost) /\ UNCHANGED <<st, dev, toDevice>> /\ Sound(r)
  BY DEF TypeOK, PumpType, PumpRead, external
<1>1. PICK h : h = Head(toHost) OBVIOUS
<1>2. PICK p : p = toHost' OBVIOUS
<1>3. Loses(toHost, p, h, r)
  <2>1. toHost \in Seq(Message) /\ toHost # <<>> /\ p = Tail(toHost) BY <1>0, <1>2
  <2> QED BY <1>1, <2>1, MessageTaken
<1>4. OneData(toHost, r) /\ Numbered(toHost, r, dev[r].sent) /\ ClosedLast(toHost, r)
  BY <1>0 DEF Sound, OneOut, Last
<1>5. /\ OneData(p, r) /\ ClosedLast(p, r) /\ Numbered(p, r, dev[r].sent)
      /\ h.cmd = "WRTE" /\ h.s = r => ~Comes(p, "WRTE", r) /\ h.n = dev[r].sent
      /\ h.cmd = "CLSE" /\ h.s = r => ~Comes(p, "WRTE", r)
  <2>1. OneData(p, r) /\ (h.cmd = "WRTE" /\ h.s = r => ~Comes(p, "WRTE", r)) BY <1>3, <1>4 DEF Loses
  <2>2. ClosedLast(p, r) /\ (h.cmd = "CLSE" /\ h.s = r => ~Comes(p, "WRTE", r)) BY <1>3, <1>4 DEF Loses
  <2>3. PICK n : n = dev[r].sent OBVIOUS
  <2>4. Numbered(toHost, r, n) BY <1>4, <2>3
  <2>5. Numbered(p, r, n) /\ (h.cmd = "WRTE" /\ h.s = r => h.n = n) BY <1>3, <2>4 DEF Loses
  <2> QED BY <2>1, <2>2, <2>3, <2>5
<1>6. CASE h.cmd \notin {"OKAY", "WRTE", "CLSE"} /\ PumpStops("ErrProtocol")
  <2>1. h.s # r
    <3>1. h \in Message BY <1>0, <1>1, HeadType
    <3>2. ASSUME NEW m \in Message, m.cmd \notin {"OKAY", "WRTE", "CLSE"} PROVE m.s = NoStream
      BY <3>2 DEF Message, NoMsg
    <3> QED BY <1>6, <3>1, <3>2, AdbAssumption
  <2>2. pump'.pc \in {"reap", "dead"} /\ (r \in streams' => r \in streams)
        /\ (r \in reaper'.left => r \in reaper.left \/ r \in streams)
    <3>1. CASE closed
      <4>1. pump'.pc = "dead" BY <1>0, <1>6, <3>1 DEF PumpStops, PumpType
      <4> QED BY <1>6, <3>1, <4>1 DEF PumpStops
    <3>2. CASE ~closed
      <4>1. pump'.pc = "reap" BY <1>0, <1>6, <3>2 DEF PumpStops, PumpType
      <4> QED BY <1>6, <3>2, <4>1 DEF PumpStops, TeardownBegin
    <3> QED BY <3>1, <3>2
  <2>3. (\A cmd : ~InHand(cmd, r)') /\ ~Acking(r)' BY <2>2 DEF InHand, Acking
  <2>4. pump'.pc \notin {"run", "ack"} BY <2>2
  <2> QED BY <1>0, <1>2, <1>3, <1>5, <2>1, <2>2, <2>3, <2>4, Passed DEF Loses
<1>7. CASE /\ h.s \in streams
           /\ pump' = [pc |-> "run", m |-> h] /\ UNCHANGED <<streams, closed, reaper>>
  <2>1. pump'.pc = "run" /\ pump'.m = h BY <1>7
  <2>2. CASE h.s = r BY <1>0, <1>2, <1>3, <1>5, <1>7, <2>1, <2>2, Handed DEF Loses
  <2>3. CASE h.s # r
    <3>1. (\A cmd : ~InHand(cmd, r)') /\ ~Acking(r)' BY <2>1, <2>3 DEF InHand, Acking
    <3> QED BY <1>0, <1>2, <1>3, <1>5, <1>7, <2>1, <2>3, <3>1, Passed DEF Loses
  <2> QED BY <2>2, <2>3
<1>8. CASE h.s \notin streams /\ UNCHANGED <<pump, streams, closed, reaper>>
  <2>1. pump'.pc = "read" BY <1>0, <1>8
  <2>2. (\A cmd : ~InHand(cmd, r)') /\ ~Acking(r)' BY <2>1 DEF InHand, Acking
  <2> QED BY <1>0, <1>2, <1>3, <1>5, <1>8, <2>1, <2>2, Passed DEF Loses
<1> QED BY <1>1, <1>6, <1>7, <1>8, PumpReadDoes
-----------------------------------------------------------------------------
(* The device moves; the host does not.  Nothing new is on the way to it. *)
Still == UNCHANGED <<st, streams, pump, reaper>>
Drained(r) ==
  /\ OnWay(toDevice', Payload("OPEN", r)) => OnWay(toDevice, Payload("OPEN", r))
  /\ OnWay(toDevice', Header("CLSE", r)) => OnWay(toDevice, Header("CLSE", r))
  /\ OnWay(toDevice', Header("OKAY", r)) => OnWay(toDevice, Header("OKAY", r))
  /\ Once(toDevice, Payload("OPEN", r)) => Once(toDevice', Payload("OPEN", r))
  /\ Once(toDevice, Header("OKAY", r)) => Once(toDevice', Header("OKAY", r))

(* What the queue to the host keeps while no data are written. *)
NoData(r) ==
  /\ Comes(toHost', "WRTE", r) <=> Comes(toHost, "WRTE", r)
  /\ OneData(toHost', r) /\ ClosedLast(toHost', r) /\ Numbered(toHost', r, dev[r].sent)

(* While the host is still, the pump holds what it held. *)
LEMMA StillSame ==
  ASSUME Still, NEW r \in Stream
  PROVE  /\ \A cmd : InHand(cmd, r)' <=> InHand(cmd, r)
         /\ Acking(r)' <=> Acking(r)
         /\ (Comes(toHost', "WRTE", r) <=> Comes(toHost, "WRTE", r)) => (InFlight(r)' <=> InFlight(r))
<1>1. (\A cmd : InHand(cmd, r)' <=> InHand(cmd, r)) /\ (Acking(r)' <=> Acking(r))
  BY DEF Still, InHand, Acking
<1> QED BY <1>1 DEF InFlight

(* A stream that the step is not about. *)
LEMMA CalmSound ==
  ASSUME Still, NEW r \in Stream, Sound(r), Drained(r), NoData(r), dev'[r] = dev[r],
         Comes(toHost', "CLSE", r) <=> Comes(toHost, "CLSE", r),
         About(toHost', r) => About(toHost, r) \/ dev[r].state # "none"
  PROVE  Sound(r)'
<1>1. /\ \A cmd : InHand(cmd, r)' <=> InHand(cmd, r)
      /\ Acking(r)' <=> Acking(r)
      /\ InFlight(r)' <=> InFlight(r)
  BY StillSame DEF NoData
<1>2. Fresh(r)' BY DEF Sound, Fresh, Still
<1>3. Begun(r)' BY DEF Sound, Begun, Still
<1>4. Out(r)' BY <1>1 DEF Sound, Out, Still, Drained
<1>5. OneOut(r)' BY <1>1 DEF Sound, OneOut, NoData, Still
<1>6. Last(r)' BY <1>1 DEF Sound, Last, NoData
<1>7. All(r)' <=> All(r) BY <1>1 DEF All, Still
<1>8. Lossless(r)' BY <1>1, <1>7 DEF Sound, Lossless, InOrder, Ended, AtEnd, Still
<1> QED BY <1>2, <1>3, <1>4, <1>5, <1>6, <1>8 DEF Sound

(* The device opens or closes its end of r. *)
LEMMA TurnSound ==
  ASSUME Still, NEW r \in Stream, Sound(r), Drained(r), NoData(r),
         dev'[r].sent = dev[r].sent, dev'[r].waits = dev[r].waits,
         dev'[r].state \in {"open", "closed"},
         dev[r].state = "closed" => dev'[r].state = "closed",
         Comes(toHost', "CLSE", r) => Comes(toHost, "CLSE", r) \/ dev'[r].state = "closed",
         st[r].op \notin Early, ~OnWay(toDevice', Payload("OPEN", r))
  PROVE  Sound(r)'
<1>1. /\ \A cmd : InHand(cmd, r)' <=> InHand(cmd, r)
      /\ Acking(r)' <=> Acking(r)
      /\ InFlight(r)' <=> InFlight(r)
  BY StillSame DEF NoData
<1>2. Fresh(r)' BY DEF Sound, Fresh, Still
<1>3. Begun(r)' BY DEF Begun, Still
<1>4. Out(r)' BY <1>1 DEF Sound, Out, Still, Drained
<1>5. OneOut(r)' BY <1>1 DEF Sound, OneOut, NoData, Still
<1>6. Last(r)' BY <1>1 DEF Sound, Last, NoData
<1>7. All(r)' <=> All(r) BY <1>1 DEF All, Still
<1>8. Lossless(r)' BY <1>1, <1>7 DEF Sound, Lossless, InOrder, Ended, AtEnd, Still
<1> QED BY <1>2, <1>3, <1>4, <1>5, <1>6, <1>8 DEF Sound

(* The device has its OKAY. *)
LEMMA AckedSound ==
  ASSUME Still, NEW r \in Stream, Sound(r), Drained(r), toHost' = toHost,
         dev'[r].sent = dev[r].sent, dev'[r].state = dev[r].state, ~dev'[r].waits,
         OnWay(toDevice, Header("OKAY", r)), ~OnWay(toDevice', Header("OKAY", r))
  PROVE  Sound(r)'
<1>1. /\ \A cmd : InHand(cmd, r)' <=> InHand(cmd, r)
      /\ Acking(r)' <=> Acking(r)
      /\ InFlight(r)' <=> InFlight(r)
  BY StillSame
<1>2. Fresh(r)' BY DEF Sound, Fresh, Still
<1>3. Begun(r)' BY DEF Sound, Begun, Still
<1>4. Out(r)' BY <1>1 DEF Sound, Out, Still, Drained
<1>5. ~InFlight(r) /\ ~Acking(r) BY DEF Sound, Out
<1>6. OneOut(r)' BY <1>1, <1>5 DEF Sound, OneOut, Still, InFlight
<1>7. Last(r)' BY <1>1 DEF Sound, Last
<1>8. All(r)' <=> All(r) BY <1>1 DEF All, Still
<1>9. Lossless(r)' BY <1>1, <1>8 DEF Sound, Lossless, InOrder, Ended, AtEnd, Still
<1> QED BY <1>2, <1>3, <1>4, <1>6, <1>7, <1>9 DEF Sound

(* The device writes the next datum. *)
LEMMA DataSound ==
  ASSUME TypeOK, Still, NEW r \in Stream, Sound(r), toDevice' = toDevice,
         NEW m, Gains(toHost, toHost', m, r), m.cmd = "WRTE", m.s = r, m.n = dev'[r].sent,
         dev[r].state = "open", ~dev[r].waits,
         dev'[r].state = "open", dev'[r].waits, dev'[r].sent = dev[r].sent + 1
  PROVE  Sound(r)'
<1>1. /\ \A cmd : InHand(cmd, r)' <=> InHand(cmd, r)
      /\ Acking(r)' <=> Acking(r)
  BY StillSame
<1>2. /\ ~InFlight(r) /\ ~Acking(r) /\ ~OnWay(toDevice, Header("OKAY", r))
      /\ ~Comes(toHost, "WRTE", r) /\ ~InHand("WRTE", r)
      /\ ~Comes(toHost, "CLSE", r) /\ ~InHand("CLSE", r)
  BY DEF Sound, OneOut, Out, InFlight, Last
<1>3. Comes(toHost', "WRTE", r) /\ ~Comes(toHost', "CLSE", r) BY <1>2 DEF Gains
<1>4. OneData(toHost', r) /\ ClosedLast(toHost', r) BY <1>2 DEF Gains, Sound, OneOut, Last
<1>5. Numbered(toHost', r, dev'[r].sent)
  <2>1. PICK n : n = dev'[r].sent OBVIOUS
  <2>2. Numbered(toHost', r, n) BY <1>2, <2>1 DEF Gains
  <2> QED BY <2>1, <2>2
<1>6. InFlight(r)' BY <1>3 DEF InFlight
<1>7. Fresh(r)' BY DEF Sound, Fresh, Still
<1>8. Begun(r)' BY DEF Sound, Begun, Still
<1>9. Out(r)' BY <1>1, <1>2 DEF Sound, Out, Still
<1>10. OneOut(r)' BY <1>1, <1>2, <1>4, <1>5 DEF OneOut
<1>11. Last(r)' BY <1>1, <1>2, <1>3, <1>4 DEF Last
<1>12. All(r) => All(r)'
  <2>1. st[r].got \in Seq(Nat) /\ st[r].writes \in Seq(Nat) /\ st' = st
    BY DEF TypeOK, StreamState, Still
  <2>2. PICK a \in Nat, b \in Nat : a = Len(st[r].got) /\ b = Len(st[r].writes) BY <2>1
  <2>3. ASSUME All(r) PROVE dev[r].sent = a + b + 0 BY <1>2, <2>2, <2>3 DEF All
  <2>4. ASSUME All(r) PROVE dev'[r].sent = a + b + 1
    <3>1. a + b + 0 = a + b OBVIOUS
    <3>2. dev[r].sent = a + b BY <2>3, <2>4, <3>1
    <3> QED BY <3>2, Zenon
  <2> QED BY <1>6, <2>1, <2>2, <2>4 DEF All
<1>13. st[r].cl = "no" => ~Ended(r) /\ st[r].end # "EOF" BY DEF Sound, Lossless, AtEnd
<1>14. Lossless(r)' BY <1>1, <1>12, <1>13 DEF Sound, Lossless, InOrder, Ended, Still
<1> QED BY <1>7, <1>8, <1>9, <1>10, <1>11, <1>14 DEF Sound

(* The queues, as the device's steps leave them. *)
LEMMA DrainTail ==
  ASSUME TypeOK, toDevice # <<>>, toDevice' = Tail(toDevice)
  PROVE  /\ \A r \in Stream : Drained(r)
         /\ OnWay(toDevice, Head(toDevice))
         /\ Once(toDevice, Head(toDevice)) => ~OnWay(toDevice', Head(toDevice))
<1>1. toDevice \in Seq(Chunk) BY DEF TypeOK
<1>2. PICK p : p = toDevice' OBVIOUS
<1>3. \A c : /\ OnWay(p, c) => OnWay(toDevice, c)
             /\ OnWay(toDevice, Head(toDevice))
             /\ Once(toDevice, c) => Once(p, c) /\ (c = Head(toDevice) => ~OnWay(p, c))
  BY <1>1, <1>2, ChunkTaken
<1>4. ASSUME NEW r \in Stream PROVE Drained(r)
  BY <1>2, <1>3 DEF Drained
<1> QED BY <1>2, <1>3, <1>4

(* The device's message, as stream r sees it. *)
LEMMA GainsHost ==
  ASSUME TypeOK, NEW m \in Message, toHost' = Append(toHost, m), NEW r \in Stream
  PROVE  Gains(toHost, toHost', m, r)
<1>1. toHost \in Seq(Message) BY DEF TypeOK
<1>2. PICK p : p = toHost' OBVIOUS
<1>3. Gains(toHost, p, m, r) BY <1>1, <1>2, MessageAppended
<1> QED BY <1>2, <1>3

(* A message other than data for r. *)
LEMMA NoDataGained ==
  ASSUME NEW r \in Stream, Sound(r), NEW m, Gains(toHost, toHost', m, r),
         ~(m.cmd = "WRTE" /\ m.s = r)
  PROVE  NoData(r)
<1>1. OneData(toHost, r) /\ ClosedLast(toHost, r) /\ Numbered(toHost, r, dev[r].sent)
  BY DEF Sound, OneOut, Last
<1>2. Numbered(toHost', r, dev[r].sent)
  <2>1. PICK n : n = dev[r].sent OBVIOUS
  <2>2. Numbered(toHost, r, n) BY <1>1, <2>1
  <2>3. Numbered(toHost', r, n) BY <2>2 DEF Gains
  <2> QED BY <2>1, <2>3
<1> QED BY <1>1, <1>2 DEF Gains, NoData

(* No message at all. *)
LEMMA NoDataSame ==
  ASSUME NEW r \in Stream, Sound(r), toHost' = toHost
  PROVE  NoData(r)
BY DEF Sound, OneOut, Last, NoData

(* A message other than data, on stream s. *)
LEMMA OthersCalm ==
  ASSUME TypeOK, Still, NEW s \in Stream, NEW r \in Stream, r # s, Sound(r), Drained(r),
         dev'[r] = dev[r],
         toHost' = toHost \/ \E m \in Message : m.s = s /\ toHost' = Append(toHost, m)
  PROVE  Sound(r)'
<1>1. CASE toHost' = toHost BY <1>1, NoDataSame, CalmSound
<1>2. ASSUME NEW m \in Message, m.s = s, toHost' = Append(toHost, m) PROVE Sound(r)'
  <2>1. Gains(toHost, toHost', m, r) BY <1>2, GainsHost
  <2>2. NoData(r) BY <1>2, <2>1, NoDataGained
  <2>3. /\ Comes(toHost', "CLSE", r) <=> Comes(toHost, "CLSE", r)
        /\ About(toHost', r) => About(toHost, r)
    BY <1>2, <2>1 DEF Gains
  <2> QED BY <2>2, <2>3, CalmSound
<1> QED BY <1>1, <1>2

(* What the device handles was on its way, once. *)
LEMMA HandlesSound ==
  ASSUME TypeOK, Peers, Woken, \A r \in Stream : Sound(r), Still, \A r \in Stream : Drained(r),
         NEW cmd \in {"OPEN", "OKAY", "WRTE", "CLSE"}, NEW s \in Stream, DeviceHandles(cmd, s),
         cmd = "OPEN" => /\ OnWay(toDevice, Payload("OPEN", s))
                         /\ ~OnWay(toDevice', Payload("OPEN", s)),
         cmd = "OKAY" => /\ OnWay(toDevice, Header("OKAY", s))
                         /\ ~OnWay(toDevice', Header("OKAY", s)),
         cmd = "CLSE" => OnWay(toDevice, Header("CLSE", s))
  PROVE  \A r \in Stream : Sound(r)'
<1>0. /\ Msg("OKAY", s, 0) \in Message /\ Msg("CLSE", s, 0) \in Message
      /\ Msg("OKAY", s, 0).s = s /\ Msg("CLSE", s, 0).s = s
      /\ Msg("OKAY", s, 0).cmd = "OKAY" /\ Msg("CLSE", s, 0).cmd = "CLSE"
  BY ChunkTypes DEF Msg
<1>1. dev \in [Stream -> DevState] /\ dev[s] \in DevState BY DEF TypeOK
<1>2. toHost' = toHost \/ \E m \in Message : m.s = s /\ toHost' = Append(toHost, m)
  BY <1>0 DEF DeviceHandles
<1>3. \A r \in Stream : r # s => dev'[r] = dev[r] BY <1>1 DEF DeviceHandles
<1>4. Sound(s) /\ Drained(s) OBVIOUS
<1>5. Sound(s)'
  <2>1. CASE cmd = "OPEN"
    <3>1. PICK m \in Message : /\ m \in {Msg("OKAY", s, 0), Msg("CLSE", s, 0)}
                               /\ toHost' = Append(toHost, m)
                               /\ dev'[s].state \in {"open", "closed"}
                               /\ m.cmd = "CLSE" => dev'[s].state = "closed"
                               /\ dev'[s].sent = dev[s].sent /\ dev'[s].waits = dev[s].waits
      <4>1. CASE /\ dev' = [dev EXCEPT ![s].state = "open"]
                 /\ toHost' = Append(toHost, Msg("OKAY", s, 0))
        <5>1. /\ dev'[s].state = "open" /\ dev'[s].sent = dev[s].sent
              /\ dev'[s].waits = dev[s].waits
          BY <1>1, <4>1 DEF DevState
        <5> QED BY <1>0, <4>1, <5>1
      <4>2. CASE /\ dev' = [dev EXCEPT ![s].state = "closed"]
                 /\ toHost' = Append(toHost, Msg("CLSE", s, 0))
        <5>1. /\ dev'[s].state = "closed" /\ dev'[s].sent = dev[s].sent
              /\ dev'[s].waits = dev[s].waits
          BY <1>1, <4>2 DEF DevState
        <5> QED BY <1>0, <4>2, <5>1
      <4> QED BY <2>1, <4>1, <4>2 DEF DeviceHandles
    <3>2. m.s = s /\ m.cmd \in {"OKAY", "CLSE"} BY <1>0, <3>1
    <3>3. Gains(toHost, toHost', m, s) BY <3>1, GainsHost
    <3>4. NoData(s) BY <1>4, <3>2, <3>3, NoDataGained
    <3>5. Comes(toHost', "CLSE", s) => Comes(toHost, "CLSE", s) \/ dev'[s].state = "closed"
      BY <3>1, <3>3 DEF Gains
    <3>6. st[s].op \notin Early /\ dev[s].state = "none" BY <1>4, <2>1 DEF Sound, Out
    <3> QED BY <1>4, <2>1, <3>1, <3>4, <3>5, <3>6, TurnSound
  <2>2. CASE cmd = "WRTE"
    <3>1. dev' = dev BY <2>2 DEF DeviceHandles
    <3>2. CASE toHost' = toHost BY <1>4, <3>1, <3>2, NoDataSame, CalmSound
    <3>3. CASE toHost' = Append(toHost, Msg("OKAY", s, 0)) /\ dev[s].state = "open"
      <4>1. PICK m \in Message : m = Msg("OKAY", s, 0) BY <1>0
      <4>2. Gains(toHost, toHost', m, s) BY <3>3, <4>1, GainsHost
      <4>3. m.cmd = "OKAY" BY <1>0, <4>1
      <4>4. NoData(s) BY <1>4, <4>2, <4>3, NoDataGained
      <4>5. Comes(toHost', "CLSE", s) <=> Comes(toHost, "CLSE", s) BY <4>2, <4>3 DEF Gains
      <4> QED BY <1>4, <3>1, <3>3, <4>4, <4>5, CalmSound
    <3> QED BY <2>2, <3>2, <3>3 DEF DeviceHandles
  <2>3. CASE cmd = "OKAY"
    <3>1. toHost' = toHost /\ dev' = [dev EXCEPT ![s].waits = FALSE] BY <2>3 DEF DeviceHandles
    <3>2. ~dev'[s].waits /\ dev'[s].sent = dev[s].sent /\ dev'[s].state = dev[s].state
      BY <1>1, <3>1 DEF DevState
    <3> QED BY <1>4, <2>3, <3>1, <3>2, AckedSound
  <2>4. CASE cmd = "CLSE"
    <3>1. toHost' = toHost /\ dev' = [dev EXCEPT ![s].state = "closed"] BY <2>4 DEF DeviceHandles
    <3>2. /\ dev'[s].state = "closed" /\ dev'[s].sent = dev[s].sent
          /\ dev'[s].waits = dev[s].waits
      BY <1>1, <3>1 DEF DevState
    <3>3. st[s].op = "open" /\ dev[s].state # "none"
      <4>1. st[s].cl # "no" BY <1>4, <2>4 DEF Sound, Out
      <4>2. st[s].op = "open" BY <4>1 DEF Woken, Cared
      <4>3. st[s].remote BY <4>2 DEF Peers, Known
      <4> QED BY <1>4, <4>2, <4>3 DEF Sound, Begun
    <3>4. ~OnWay(toDevice', Payload("OPEN", s)) BY <1>4, <3>3 DEF Sound, Out, Drained
    <3>5. st[s].op \notin Early BY <3>3 DEF Early
    <3> QED BY <1>4, <3>1, <3>2, <3>4, <3>5, NoDataSame, TurnSound
  <2> QED BY <2>1, <2>2, <2>3, <2>4
<1> QED BY <1>2, <1>3, <1>5, OthersCalm

(* The device's steps: a chunk is read, or something is written. *)
LEMMA ReadsSound ==
  ASSUME TypeOK, Peers, Woken, Wire, DeviceReads
  PROVE  (\A r \in Stream : Sound(r)') /\ (pending'.s # NoStream => HasPayload(pending'))
<1>0. /\ \A r \in Stream : Sound(r)
      /\ Still /\ toDevice # <<>> /\ toDevice' = Tail(toDevice) /\ toDevice \in Seq(Chunk)
  BY DEF TypeOK, Wire, DeviceReads, host, Still
<1>1. PICK k : k = Head(toDevice) OBVIOUS
<1>2. k \in Chunk BY <1>0, <1>1
<1>3. /\ \A r \in Stream : Drained(r)
      /\ OnWay(toDevice, k)
      /\ Once(toDevice, k) => ~OnWay(toDevice', k)
  BY <1>0, <1>1, DrainTail
<1>4. PICK s \in Stream : s = k.s BY <1>2 DEF Chunk
<1>5. PICK cmd \in {"OPEN", "OKAY", "WRTE", "CLSE"} : cmd = k.cmd BY <1>2 DEF Chunk
<1>6. /\ k.part = "header" => k = Header(cmd, s)
      /\ k.part = "payload" => k = Payload(cmd, s)
  <2>1. k = [part |-> k.part, cmd |-> cmd, s |-> s] BY <1>2, <1>4, <1>5 DEF Chunk
  <2> QED BY <2>1 DEF Header, Payload
<1>7. ASSUME UNCHANGED <<dev, toHost>> PROVE \A r \in Stream : Sound(r)'
  BY <1>0, <1>3, <1>7, NoDataSame, CalmSound
<1>8. ASSUME DeviceHandles(cmd, s),
             \/ k.part = "header" /\ cmd \in {"OKAY", "CLSE"}
             \/ k.part = "payload" /\ cmd \in {"OPEN", "WRTE"}
      PROVE  \A r \in Stream : Sound(r)'
  <2>1. cmd = "OPEN" => /\ OnWay(toDevice, Payload("OPEN", s))
                        /\ ~OnWay(toDevice', Payload("OPEN", s))
    <3>1. ASSUME cmd = "OPEN" PROVE k = Payload("OPEN", s) BY <1>6, <1>8, <3>1
    <3>2. Once(toDevice, Payload("OPEN", s)) BY <1>0 DEF Sound, Out
    <3> QED BY <1>3, <3>1, <3>2
  <2>2. cmd = "OKAY" => /\ OnWay(toDevice, Header("OKAY", s))
                        /\ ~OnWay(toDevice', Header("OKAY", s))
    <3>1. ASSUME cmd = "OKAY" PROVE k = Header("OKAY", s) BY <1>6, <1>8, <3>1
    <3>2. Once(toDevice, Header("OKAY", s)) BY <1>0 DEF Sound, Out
    <3> QED BY <1>3, <3>1, <3>2
  <2>3. cmd = "CLSE" => OnWay(toDevice, Header("CLSE", s)) BY <1>3, <1>6, <1>8
  <2> QED BY <1>0, <1>3, <1>8, <2>1, <2>2, <2>3, HandlesSound
<1>9. CASE Idle /\ HasPayload(k) /\ pending' = k /\ UNCHANGED <<dev, toHost>>
  BY <1>7, <1>9
<1>10. CASE k.part = "header" /\ ~HasPayload(k) /\ DeviceHandles(k.cmd, k.s) /\ UNCHANGED pending
  <2>1. cmd \in {"OKAY", "CLSE"} BY <1>5, <1>10 DEF HasPayload
  <2> QED BY <1>4, <1>5, <1>8, <1>10, <2>1 DEF Wire
<1>11. CASE /\ ~Idle /\ k = Payload(pending.cmd, pending.s) /\ DeviceHandles(k.cmd, k.s)
            /\ pending' = Header("OKAY", NoStream)
  <2>1. HasPayload(pending) BY <1>11 DEF Idle, Wire
  <2>2. k.part = "payload" /\ k.cmd = pending.cmd BY <1>11 DEF Payload
  <2>3. cmd \in {"OPEN", "WRTE"} BY <1>5, <2>1, <2>2 DEF HasPayload
  <2>4. pending'.s = NoStream BY <1>11 DEF Header
  <2> QED BY <1>4, <1>5, <1>8, <1>11, <2>2, <2>3, <2>4
<1>12. CASE UNCHANGED <<dev, toHost, pending>> BY <1>7, <1>12 DEF Wire
<1> QED BY <1>1, <1>9, <1>10, <1>11, <1>12 DEF DeviceReads

(* The device writes data or a CLSE, sends a stray command, or drops the connection. *)
LEMMA WritesSound ==
  ASSUME TypeOK, Wire,
         DeviceOther \/ DeviceDrops \/ \E s \in Stream : DeviceWrites(s) \/ DeviceCloses(s)
  PROVE  \A r \in Stream : Sound(r)'
<1>0. /\ \A r \in Stream : Sound(r)
      /\ Still /\ toDevice' = toDevice
  BY DEF Wire, DeviceOther, DeviceDrops, DeviceWrites, DeviceCloses, host, Still
<1>1. \A r \in Stream : Drained(r) BY <1>0 DEF Drained
<1>2. CASE DeviceDrops
  BY <1>0, <1>1, <1>2, NoDataSame, CalmSound DEF DeviceDrops, external
<1>3. CASE DeviceOther
  <2>1. NoMsg \in Message /\ toHost' = Append(toHost, NoMsg) /\ dev' = dev
    BY <1>3 DEF Message, DeviceOther, external
  <2>2. PICK m \in Message : m = NoMsg BY <2>1
  <2>3. \A r \in Stream : m.s # r BY <2>2, AdbAssumption DEF NoMsg
  <2>4. ASSUME NEW r \in Stream PROVE Sound(r)'
    <3>1. Gains(toHost, toHost', m, r) BY <2>1, <2>2, GainsHost
    <3>2. NoData(r) BY <1>0, <2>3, <3>1, NoDataGained
    <3>3. /\ Comes(toHost', "CLSE", r) <=> Comes(toHost, "CLSE", r)
          /\ About(toHost', r) => About(toHost, r)
      BY <2>3, <3>1 DEF Gains
    <3> QED BY <1>0, <1>1, <2>1, <3>2, <3>3, CalmSound
  <2> QED BY <2>4
<1>4. ASSUME NEW s \in Stream, DeviceWrites(s) PROVE \A r \in Stream : Sound(r)'
  <2>1. dev \in [Stream -> DevState] /\ dev[s] \in DevState BY DEF TypeOK
  <2>2. PICK n \in Nat : n = dev[s].sent + 1
    <3>1. dev[s].sent \in Nat BY <2>1 DEF DevState
    <3> QED BY <3>1
  <2>3. /\ dev[s].state = "open" /\ ~dev[s].waits
        /\ dev' = [dev EXCEPT ![s] = [dev[s] EXCEPT !.sent = n, !.waits = TRUE]]
        /\ toHost' = Append(toHost, Msg("WRTE", s, n))
    BY <1>4, <2>2 DEF DeviceWrites
  <2>4. /\ dev'[s].state = "open" /\ dev'[s].waits /\ dev'[s].sent = n
        /\ \A r \in Stream : r # s => dev'[r] = dev[r]
    BY <2>1, <2>3 DEF DevState
  <2>5. PICK m \in Message : m = Msg("WRTE", s, n)
    <3>1. Msg("WRTE", s, n) \in Message BY ChunkTypes
    <3> QED BY <3>1
  <2>6. m.s = s /\ m.cmd = "WRTE" /\ m.n = n BY <2>5 DEF Msg
  <2>7. Sound(s)'
    <3>1. Gains(toHost, toHost', m, s) BY <2>3, <2>5, GainsHost
    <3>2. Sound(s) /\ Still /\ toDevice' = toDevice BY <1>0
    <3>3. m.n = dev'[s].sent /\ dev'[s].sent = dev[s].sent + 1 BY <2>2, <2>4, <2>6
    <3> QED BY <2>3, <2>4, <2>6, <3>1, <3>2, <3>3, DataSound
  <2>8. ASSUME NEW r \in Stream, r # s PROVE Sound(r)'
    <3>1. toHost' = Append(toHost, m) BY <2>3, <2>5
    <3> QED BY <1>0, <1>1, <2>4, <2>6, <2>8, <3>1, OthersCalm
  <2> QED BY <2>7, <2>8
<1>5. ASSUME NEW s \in Stream, DeviceCloses(s) PROVE \A r \in Stream : Sound(r)'
  <2>1. dev \in [Stream -> DevState] /\ dev[s] \in DevState BY DEF TypeOK
  <2>2. /\ dev[s].state = "open" /\ dev' = [dev EXCEPT ![s] = [dev[s] EXCEPT !.state = "closed"]]
        /\ toHost' = Append(toHost, Msg("CLSE", s, 0))
    BY <1>5 DEF DeviceCloses
  <2>3. /\ dev'[s].state = "closed" /\ dev'[s].waits = dev[s].waits /\ dev'[s].sent = dev[s].sent
        /\ \A r \in Stream : r # s => dev'[r] = dev[r]
    BY <2>1, <2>2 DEF DevState
  <2>4. PICK m \in Message : m = Msg("CLSE", s, 0)
    <3>1. Msg("CLSE", s, 0) \in Message BY ChunkTypes
    <3> QED BY <3>1
  <2>5. m.s = s /\ m.cmd = "CLSE" /\ toHost' = Append(toHost, m) BY <2>2, <2>4 DEF Msg
  <2>6. Sound(s)'
    <3>1. Gains(toHost, toHost', m, s) BY <2>5, GainsHost
    <3>2. Sound(s) /\ Still /\ Drained(s) /\ toDevice' = toDevice BY <1>0, <1>1
    <3>3. NoData(s) BY <2>5, <3>1, <3>2, NoDataGained
    <3>4. st[s].op \notin Early /\ ~OnWay(toDevice', Payload("OPEN", s))
      BY <2>2, <3>2 DEF Sound, Begun, Out
    <3> QED BY <2>3, <3>2, <3>3, <3>4, TurnSound
  <2>7. ASSUME NEW r \in Stream, r # s PROVE Sound(r)'
    BY <1>0, <1>1, <2>3, <2>5, <2>7, OthersCalm
  <2> QED BY <2>6, <2>7
<1> QED BY <1>2, <1>3, <1>4, <1>5
-----------------------------------------------------------------------------
(* Nothing is on the wire. *)
LEMMA WireInit == Init => Wire
<1> SUFFICES ASSUME Init PROVE Wire OBVIOUS
<1>1. pending.s = NoStream BY DEF Init, Header
<1>2. ASSUME NEW s \in Stream PROVE Sound(s)
  <2>1. st[s] = NewStream /\ dev[s] = [state |-> "none", sent |-> 0, waits |-> FALSE]
    BY DEF Init
  <2>2. /\ toHost = <<>> /\ toDevice = <<>> /\ pump.pc = "read" /\ streams = {}
        /\ reaper.left = {}
    BY DEF Init
  <2>3. Len(<<>>) = 0 /\ 1..0 = {} OBVIOUS
  <2>4. /\ \A cmd : ~Comes(toHost, cmd, s)
        /\ ~About(toHost, s) /\ OneData(toHost, s) /\ ClosedLast(toHost, s)
        /\ Numbered(toHost, s, 0)
    BY <2>2, <2>3 DEF Comes, About, OneData, ClosedLast, Numbered
  <2>5. \A c : ~OnWay(toDevice, c) /\ Once(toDevice, c) BY <2>2, <2>3 DEF OnWay, Once
  <2>6. (\A cmd : ~InHand(cmd, s)) /\ ~Acking(s) BY <2>2 DEF InHand, Acking
  <2>7. /\ st[s].op = "idle" /\ st[s].failErr = "none" /\ st[s].got = <<>>
        /\ st[s].writes = <<>> /\ ~st[s].remote /\ ~st[s].closed /\ st[s].end = "no"
    BY <2>1 DEF NewStream
  <2>8. dev[s].state = "none" /\ dev[s].sent = 0 BY <2>1
  <2>9. Fresh(s) BY <2>2, <2>7 DEF Fresh
  <2>10. Begun(s) BY <2>2, <2>4, <2>7, <2>8 DEF Begun
  <2>11. Out(s) BY <2>5 DEF Out
  <2>12. OneOut(s) BY <2>4, <2>6, <2>8 DEF OneOut, InFlight
  <2>13. Last(s) BY <2>4, <2>6 DEF Last
  <2>14. InOrder(s) BY <2>3, <2>7 DEF InOrder, Counts
  <2>15. Lossless(s) BY <2>2, <2>6, <2>7, <2>14 DEF Lossless, Ended
  <2> QED BY <2>9, <2>10, <2>11, <2>12, <2>13, <2>15 DEF Sound
<1> QED BY <1>1, <1>2 DEF Wire

(* Every step keeps the wire sound. *)
LEMMA WireStep ==
  ASSUME TypeOK, Peers, Woken, Wire, [Next]_vars
  PROVE  Wire'
<1>0. \A r \in Stream : Sound(r) BY DEF Wire
<1>1. CASE DeviceReads BY <1>1, ReadsSound DEF Wire, HasPayload
<1>2. CASE ~DeviceReads
  <2>1. pending' = pending
    BY <1>2 DEF Next, OpenRegister, OpenStep, OpenHeader, OpenPayload, OpenReady, OpenCancelled,
         Cancel, Read, WriteStep, WriteHeader, WritePayload, CloseSend, CloseRemove, TeardownFail,
         DeviceWrites, DeviceCloses, PumpStep, PumpError, PumpRead, PumpRun, PumpAck, TeardownEnd,
         Shut, DeviceOther, DeviceDrops, external, vars
  <2>2. \A r \in Stream : Sound(r)'
    <3>1. ASSUME NEW s \in Stream, Acts(s) PROVE \A r \in Stream : Sound(r)'
      BY <1>0, <3>1, ActsSound
    <3>2. CASE PumpRun BY <1>0, <3>2, PumpRunSound
    <3>3. CASE PumpError \/ TeardownEnd \/ Shut BY <1>0, <3>3, StopsSound
    <3>4. CASE PumpRead BY <1>0, <3>4, ReadSound
    <3>5. CASE PumpAck BY <1>0, <3>5, AckSound
    <3>6. CASE DeviceOther \/ DeviceDrops \/ \E s \in Stream : DeviceWrites(s) \/ DeviceCloses(s)
      BY <3>6, WritesSound
    <3>7. CASE UNCHANGED vars
      <4>1. UNCHANGED <<st, dev, toHost, toDevice, pump, streams, reaper>> BY <3>7 DEF vars
      <4> QED BY <1>0, <4>1, Settles
    <3> QED BY <1>2, <3>1, <3>2, <3>3, <3>4, <3>5, <3>6, <3>7, Steps DEF Elsewhere
  <2> QED BY <2>1, <2>2 DEF Wire, HasPayload
<1> QED BY <1>1, <1>2

(* What a reader has at the end is what the device sent, as a sequence. *)
LEMMA EndIsAll ==
  ASSUME TypeOK, Wire
  PROVE  EofIsComplete
<1>1. SUFFICES ASSUME NEW s \in Stream, st[s].end = "EOF", st[s].cl = "no"
               PROVE  st[s].got = [n \in 1..dev[s].sent |-> n]
  BY DEF EofIsComplete
<1>2. AtEnd(s) /\ InOrder(s) BY <1>1 DEF Wire, Sound, Lossless
<1>3. st[s].got \in Seq(Nat) BY DEF TypeOK, StreamState
<1>4. PICK g \in Seq(Nat) : g = st[s].got BY <1>3
<1>5. dev[s].sent = Len(g) /\ \A i \in 1..Len(g) : g[i] = i
  BY <1>2, <1>4 DEF AtEnd, InOrder, Counts
<1>6. g = [n \in 1..Len(g) |-> n]
  <2>1. g = [n \in 1..Len(g) |-> g[n]] OBVIOUS
  <2> QED BY <1>5, <2>1
<1> QED BY <1>4, <1>5, <1>6

(* A reader that sees the end of a stream it did not close has had all that *)
(* the device wrote on it, in order, for any number of streams, any buffer  *)
(* and any interleaving with closes, teardowns and lost connections         *)
(* (onWrite, onClose, fail, Read: transport.go).                            *)
THEOREM EofMeansAll == Spec => []EofIsComplete
<1>1. Init => StreamInv BY TypeInit, PeersInit, WireInit DEF StreamInv, TransportInv
<1>2. StreamInv /\ [Next]_vars => StreamInv'
  BY TypeStep, PeersStep, WokenStep, WireStep DEF StreamInv, TransportInv
<1>3. StreamInv => EofIsComplete BY EndIsAll DEF StreamInv, TransportInv
<1> QED BY <1>1, <1>2, <1>3, PTL DEF Spec
-----------------------------------------------------------------------------
(* Streams as pipes.  Whether the host has closed the stream or not, the    *)
(* data the reader has and the data in the buffer rise, and what is in      *)
(* flight is higher than both.                                              *)
Below(q, n) == \A i \in 1..Len(q) : q[i] < n
Rises(g, w, n) ==
  /\ \A i \in 1..Len(w) : 0 < w[i] /\ w[i] <= n /\ Below(g, w[i])
  /\ \A i, j \in 1..Len(w) : i < j => w[i] < w[j]
  /\ Below(g, n + 1)
Rising(s) ==
  /\ Rises(st[s].got, st[s].writes, dev[s].sent)
  /\ InFlight(s) => /\ 0 < dev[s].sent
                    /\ Below(st[s].got, dev[s].sent) /\ Below(st[s].writes, dev[s].sent)
PipeInv == StreamInv /\ \A s \in Stream : Rising(s)

(* The device has sent one more. *)
LEMMA SentRises ==
  ASSUME NEW g \in Seq(Nat), NEW w \in Seq(Nat), NEW n \in Nat, NEW m \in Nat, m = n + 1,
         Rises(g, w, n)
  PROVE  Rises(g, w, m) /\ 0 < m /\ Below(g, m) /\ Below(w, m)
<1>1. \A i \in 1..Len(w) : w[i] \in Nat OBVIOUS
<1>2. \A i \in 1..Len(g) : g[i] \in Nat OBVIOUS
<1>3. Below(g, m) BY DEF Rises
<1>4. \A i \in 1..Len(w) : 0 < w[i] /\ w[i] <= m /\ w[i] < m BY <1>1 DEF Rises
<1>5. Below(g, m + 1) BY <1>2, <1>3 DEF Below
<1>6. Rises(g, w, m) BY <1>4, <1>5 DEF Rises
<1> QED BY <1>3, <1>4, <1>6 DEF Below

(* What was in flight is buffered. *)
LEMMA BufferRises ==
  ASSUME NEW g \in Seq(Nat), NEW w \in Seq(Nat), NEW n \in Nat, NEW y, y = Append(w, n),
         Rises(g, w, n), 0 < n, Below(g, n), Below(w, n)
  PROVE  Rises(g, y, n)
<1>1. /\ Len(w) \in Nat /\ Len(y) = Len(w) + 1 /\ y[Len(w) + 1] = n
      /\ \A i \in 1..Len(w) : y[i] = w[i]
  BY AppendPoints
<1>2. \A i \in 1..Len(y) : i \in 1..Len(w) \/ i = Len(w) + 1 BY <1>1
<1>3. \A i \in 1..Len(y) : 0 < y[i] /\ y[i] <= n /\ Below(g, y[i])
  BY <1>1, <1>2 DEF Rises
<1>4. ASSUME NEW i \in 1..Len(y), NEW j \in 1..Len(y), i < j PROVE y[i] < y[j]
  <2>1. i \in 1..Len(w) BY <1>1, <1>4
  <2>2. CASE j \in 1..Len(w) BY <1>1, <1>4, <2>1, <2>2 DEF Rises
  <2>3. CASE j = Len(w) + 1 BY <1>1, <2>1, <2>3 DEF Below
  <2> QED BY <1>2, <2>2, <2>3
<1> QED BY <1>3, <1>4 DEF Rises

(* The reader takes the first of the buffer. *)
LEMMA ReadRises ==
  ASSUME NEW g \in Seq(Nat), NEW w \in Seq(Nat), NEW n \in Nat, w # <<>>,
         NEW x, x = Append(g, Head(w)), NEW y, y = Tail(w), Rises(g, w, n)
  PROVE  /\ Rises(x, y, n) /\ Head(w) \in 1..n /\ Below(g, Head(w))
         /\ Below(g, n) /\ Below(w, n) => Below(x, n) /\ Below(y, n)
<1>1. /\ Len(w) \in Nat \ {0} /\ Len(y) = Len(w) - 1 /\ Head(w) = w[1] /\ Head(w) \in Nat
      /\ \A i \in 1..Len(y) : y[i] = w[i + 1]
  BY TailPoints
<1>2. /\ Len(g) \in Nat /\ Len(x) = Len(g) + 1 /\ x[Len(g) + 1] = Head(w)
      /\ \A i \in 1..Len(g) : x[i] = g[i]
  BY <1>1, AppendPoints
<1>3. 1 \in 1..Len(w) /\ \A i \in 1..Len(y) : i + 1 \in 1..Len(w) /\ 1 < i + 1 BY <1>1
<1>4. \A i \in 1..Len(x) : i \in 1..Len(g) \/ i = Len(g) + 1 BY <1>2
<1>5. 0 < Head(w) /\ Head(w) <= n /\ Below(g, Head(w)) BY <1>1, <1>3 DEF Rises
<1>6. \A i \in 1..Len(y) : 0 < y[i] /\ y[i] <= n /\ Below(g, y[i]) /\ Head(w) < y[i]
  BY <1>1, <1>3 DEF Rises
<1>7. \A i \in 1..Len(y) : Below(x, y[i]) BY <1>2, <1>4, <1>6 DEF Below
<1>8. \A i, j \in 1..Len(y) : i < j => y[i] < y[j]
  <2>1. \A i, j \in 1..Len(y) : i < j => i + 1 < j + 1 OBVIOUS
  <2> QED BY <1>1, <1>3, <2>1 DEF Rises
<1>9. Below(x, n + 1)
  <2>1. Head(w) < n + 1 BY <1>1, <1>5
  <2>2. Below(g, n + 1) BY DEF Rises
  <2> QED BY <1>2, <1>4, <2>1, <2>2 DEF Below
<1>10. Rises(x, y, n) BY <1>6, <1>7, <1>8, <1>9 DEF Rises
<1>11. ASSUME Below(g, n), Below(w, n) PROVE Below(x, n) /\ Below(y, n)
  <2>1. Head(w) < n BY <1>1, <1>3, <1>11 DEF Below
  <2> QED BY <1>1, <1>2, <1>3, <1>4, <1>11, <2>1 DEF Below
<1> QED BY <1>1, <1>5, <1>10, <1>11

(* What a step leaves alone of stream r: its data, and whether new data are *)
(* on their way.                                                            *)
Kept(r) == /\ dev'[r].sent = dev[r].sent
           /\ st'[r].got = st[r].got /\ st'[r].writes = st[r].writes
           /\ InFlight(r)' => InFlight(r)

(* What its pipe keeps. *)
Rests(r) == /\ dev'[r].sent = dev[r].sent
            /\ dev'[r].state = "closed" <=> dev[r].state = "closed"
            /\ st'[r].got = st[r].got /\ st'[r].end = st[r].end
            /\ st'[r].cl # "no" <=> st[r].cl # "no"

(* Data that rise keep rising while nothing is sent, buffered or read. *)
LEMMA KeptRises ==
  ASSUME NEW r \in Stream, Kept(r), Rising(r)
  PROVE  Rising(r)'
BY DEF Kept, Rising

(* A message that is taken stays in flight or is dropped. *)
LEMMA TakenFlight ==
  ASSUME TypeOK, PumpRead, NEW r \in Stream
  PROVE  InFlight(r)' => InFlight(r)
<1>1. toHost \in Seq(Message) /\ toHost # <<>> /\ toHost' = Tail(toHost) /\ pump.pc = "read"
      /\ pump \in PumpType
  BY DEF TypeOK, PumpRead, PumpType
<1>2. PICK h, p : h = Head(toHost) /\ p = toHost' OBVIOUS
<1>3. Loses(toHost, p, h, r)
  <2>1. p = Tail(toHost) BY <1>1, <1>2
  <2> QED BY <1>1, <1>2, <2>1, MessageTaken
<1>4. Comes(toHost, "WRTE", r) <=> Comes(toHost', "WRTE", r) \/ (h.cmd = "WRTE" /\ h.s = r)
  BY <1>2, <1>3 DEF Loses
<1>5. InHand("WRTE", r)' => h.cmd = "WRTE" /\ h.s = r
  <2>1. CASE PumpStops("ErrProtocol")
    <3>1. pump'.pc \in {"dead", "reap"} BY <1>1, <2>1 DEF PumpStops, PumpType
    <3> QED BY <3>1 DEF InHand
  <2>2. CASE pump' = [pc |-> "run", m |-> h] BY <2>2 DEF InHand
  <2>3. CASE pump' = pump BY <1>1, <2>3 DEF InHand
  <2> QED BY <1>2, <2>1, <2>2, <2>3, PumpReadDoes
<1> QED BY <1>4, <1>5 DEF InFlight

(* Nothing but the device puts data on their way. *)
LEMMA StopsFlight ==
  ASSUME TypeOK, PumpError \/ PumpAck \/ TeardownEnd \/ Shut \/ UNCHANGED vars, NEW r \in Stream
  PROVE  InFlight(r)' => InFlight(r)
<1>0. pump \in PumpType BY DEF TypeOK, PumpType
<1>1. toHost' = toHost BY DEF PumpError, PumpAck, TeardownEnd, Shut, vars
<1>2. pump' = pump \/ pump'.pc \in {"dead", "reap", "read"}
  <2>1. CASE PumpError BY <1>0, <2>1 DEF PumpError, PumpStops, PumpType
  <2>2. CASE PumpAck BY <1>0, <2>2 DEF PumpAck, PumpType
  <2>3. CASE TeardownEnd BY <1>0, <2>3 DEF TeardownEnd, PumpType
  <2>4. CASE Shut \/ UNCHANGED vars BY <2>4 DEF Shut, vars
  <2> QED BY <2>1, <2>2, <2>3, <2>4
<1>3. InHand("WRTE", r)' => InHand("WRTE", r) BY <1>2 DEF InHand
<1> QED BY <1>1, <1>3 DEF InFlight

(* The device's message, when it is not data for r. *)
LEMMA GainedFlight ==
  ASSUME TypeOK, pump' = pump, NEW r \in Stream,
         \/ toHost' = toHost
         \/ \E m \in Message : toHost' = Append(toHost, m) /\ ~(m.cmd = "WRTE" /\ m.s = r)
  PROVE  InFlight(r)' => InFlight(r)
<1>1. InHand("WRTE", r)' => InHand("WRTE", r) BY DEF InHand
<1>2. CASE toHost' = toHost BY <1>1, <1>2 DEF InFlight
<1>3. ASSUME NEW m \in Message, toHost' = Append(toHost, m), ~(m.cmd = "WRTE" /\ m.s = r)
      PROVE  InFlight(r)' => InFlight(r)
  <2>1. Gains(toHost, toHost', m, r) BY <1>3, GainsHost
  <2>2. Comes(toHost', "WRTE", r) <=> Comes(toHost, "WRTE", r) BY <1>3, <2>1 DEF Gains
  <2> QED BY <1>1, <2>2 DEF InFlight
<1> QED BY <1>2, <1>3

(* The pipes, point by point: where every stream rests, and where one moves. *)
LEMMA PipesRest ==
  ASSUME \A r \in Stream : Rests(r)
  PROVE  UNCHANGED Ends!vars
<1>1. [s \in Stream |-> dev[s].sent]' = [s \in Stream |-> dev[s].sent] BY DEF Rests
<1>2. [s \in Stream |-> dev[s].state = "closed"]' = [s \in Stream |-> dev[s].state = "closed"]
  BY DEF Rests
<1>3. [s \in Stream |-> st[s].got]' = [s \in Stream |-> st[s].got] BY DEF Rests
<1>4. [s \in Stream |-> st[s].end]' = [s \in Stream |-> st[s].end] BY DEF Rests
<1>5. [s \in Stream |-> st[s].cl # "no"]' = [s \in Stream |-> st[s].cl # "no"] BY DEF Rests
<1> QED BY <1>1, <1>2, <1>3, <1>4, <1>5 DEF Ends!vars

(* The device has written one more piece. *)
LEMMA PipeSends ==
  ASSUME NEW s \in Stream, \A r \in Stream : r # s => Rests(r), UNCHANGED st,
         dev[s].state # "closed", dev'[s].state # "closed", dev'[s].sent = dev[s].sent + 1
  PROVE  Ends!Send(s)
<1>1. [r \in Stream |-> dev[r].sent]'
        = [[r \in Stream |-> dev[r].sent] EXCEPT ![s] = dev[s].sent + 1]
  BY DEF Rests
<1>2. [r \in Stream |-> dev[r].state = "closed"]' = [r \in Stream |-> dev[r].state = "closed"]
  BY DEF Rests
<1>3. ~[r \in Stream |-> dev[r].state = "closed"][s] OBVIOUS
<1>4. [r \in Stream |-> dev[r].sent][s] = dev[s].sent OBVIOUS
<1> QED BY <1>1, <1>2, <1>3, <1>4 DEF Ends!Send

(* The device has closed its end. *)
LEMMA PipeFinishes ==
  ASSUME NEW s \in Stream, \A r \in Stream : r # s => Rests(r), UNCHANGED st,
         dev[s].state # "closed", dev'[s].state = "closed", dev'[s].sent = dev[s].sent
  PROVE  Ends!Finish(s)
<1>1. [r \in Stream |-> dev[r].sent]' = [r \in Stream |-> dev[r].sent] BY DEF Rests
<1>2. [r \in Stream |-> dev[r].state = "closed"]'
        = [[r \in Stream |-> dev[r].state = "closed"] EXCEPT ![s] = TRUE]
  BY DEF Rests
<1>3. ~[r \in Stream |-> dev[r].state = "closed"][s] OBVIOUS
<1> QED BY <1>1, <1>2, <1>3 DEF Ends!Finish

(* The reader has one more piece. *)
LEMMA PipeReceives ==
  ASSUME NEW s \in Stream, \A r \in Stream : r # s => Rests(r), UNCHANGED dev,
         st[s].end = "no", st'[s].end = st[s].end, st'[s].cl = st[s].cl,
         NEW n \in 1..dev[s].sent, Below(st[s].got, n),
         st[s].cl # "no" \/ n = Len(st[s].got) + 1,
         st'[s].got = Append(st[s].got, n)
  PROVE  Ends!Receive(s)
<1>1. [r \in Stream |-> st[r].got]'
        = [[r \in Stream |-> st[r].got] EXCEPT ![s] = Append(st[s].got, n)]
  BY DEF Rests
<1>2. [r \in Stream |-> st[r].end]' = [r \in Stream |-> st[r].end] BY DEF Rests
<1>3. [r \in Stream |-> st[r].cl # "no"]' = [r \in Stream |-> st[r].cl # "no"] BY DEF Rests
<1>4. /\ [r \in Stream |-> dev[r].sent][s] = dev[s].sent
      /\ [r \in Stream |-> st[r].got][s] = st[s].got
      /\ [r \in Stream |-> st[r].end][s] = "no"
  OBVIOUS
<1>5. [r \in Stream |-> st[r].cl # "no"][s] \/ n = Len(st[s].got) + 1 OBVIOUS
<1>6. \A i \in 1..Len(st[s].got) : st[s].got[i] < n BY DEF Below
<1> QED BY <1>1, <1>2, <1>3, <1>4, <1>5, <1>6 DEF Ends!Receive

(* The reader has seen the end. *)
LEMMA PipeEnds ==
  ASSUME NEW s \in Stream, \A r \in Stream : r # s => Rests(r), UNCHANGED dev,
         st[s].end = "no", st'[s].got = st[s].got, st'[s].cl = st[s].cl,
         \/ /\ st'[s].end = "EOF"
            /\ st[s].cl # "no" \/ (dev[s].state = "closed" /\ Len(st[s].got) = dev[s].sent)
         \/ st'[s].end \in Error \ {"none", "ErrStreamClosed"}
  PROVE  Ends!End(s)
<1>1. [r \in Stream |-> st[r].end]' = [[r \in Stream |-> st[r].end] EXCEPT ![s] = st'[s].end]
  BY DEF Rests
<1>2. [r \in Stream |-> st[r].got]' = [r \in Stream |-> st[r].got] BY DEF Rests
<1>3. [r \in Stream |-> st[r].cl # "no"]' = [r \in Stream |-> st[r].cl # "no"] BY DEF Rests
<1>4. /\ [r \in Stream |-> dev[r].sent][s] = dev[s].sent
      /\ [r \in Stream |-> st[r].got][s] = st[s].got
      /\ [r \in Stream |-> st[r].end][s] = "no"
  OBVIOUS
<1>5. \/ /\ st'[s].end = "EOF"
         /\ \/ [r \in Stream |-> st[r].cl # "no"][s]
            \/ /\ [r \in Stream |-> dev[r].state = "closed"][s]
               /\ Len(st[s].got) = dev[s].sent
      \/ st'[s].end \in Error \ {"none", "ErrStreamClosed"}
  OBVIOUS
<1> QED BY <1>1, <1>2, <1>3, <1>4, <1>5 DEF Ends!End

(* The host has closed its end. *)
LEMMA PipeHangs ==
  ASSUME NEW s \in Stream, \A r \in Stream : r # s => Rests(r), UNCHANGED dev,
         st'[s].got = st[s].got, st'[s].end = st[s].end, st[s].cl = "no", st'[s].cl # "no"
  PROVE  Ends!Hang(s)
<1>1. [r \in Stream |-> st[r].got]' = [r \in Stream |-> st[r].got] BY DEF Rests
<1>2. [r \in Stream |-> st[r].end]' = [r \in Stream |-> st[r].end] BY DEF Rests
<1>3. [r \in Stream |-> st[r].cl # "no"]' = [[r \in Stream |-> st[r].cl # "no"] EXCEPT ![s] = TRUE]
  BY DEF Rests
<1>4. ~[r \in Stream |-> st[r].cl # "no"][s] OBVIOUS
<1> QED BY <1>1, <1>2, <1>3, <1>4 DEF Ends!Hang

(* A step of the pipes, with the data still rising afterwards. *)
Piped == /\ [Ends!Next]_(Ends!vars)
         /\ \A r \in Stream : Rising(r)'

(* One stream's pipe moves. *)
LEMMA OneMoves ==
  ASSUME NEW s \in Stream, Ends!Send(s) \/ Ends!Finish(s) \/ Ends!Receive(s) \/ Ends!End(s) \/ Ends!Hang(s)
  PROVE  Ends!Next
BY DEF Ends!Next

(* Nobody notices. *)
LEMMA NobodyMoves ==
  ASSUME \A r \in Stream : Rests(r) /\ Kept(r) /\ Rising(r)
  PROVE  Piped
BY PipesRest, KeptRises DEF Piped

(* Read takes the lowest, or sees the end. *)
LEMMA ReadPiped ==
  ASSUME PipeInv, NEW s \in Stream, Read(s), UNCHANGED dev, InFlight(s)' <=> InFlight(s),
         Lossless(s)', \A r \in Stream : r # s => Rests(r)
  PROVE  Ends!Next /\ Rising(s)'
<1>0. /\ TypeOK /\ Rising(s) /\ st[s].got \in Seq(Nat) /\ st[s].writes \in Seq(Nat)
      /\ dev[s].sent \in Nat /\ st[s].failErr \in Error /\ Lossless(s)
  BY DEF PipeInv, StreamInv, TransportInv, TypeOK, StreamState, DevState, Wire, Sound
<1>1. /\ Only(s) /\ st[s].end = "no"
      /\ Looks(st'[s], st[s].op, st[s].ready, st[s].failErr, st[s].closed, st[s].remote, st[s].cl)
  BY <1>0, ReadDoes DEF Read
<1>2. st'[s].cl = st[s].cl BY <1>1 DEF Looks
<1>3. CASE /\ st[s].writes # <<>>
           /\ Data(st'[s], Append(st[s].got, Head(st[s].writes)), Tail(st[s].writes), st[s].end)
  <2>1. PICK g \in Seq(Nat), w \in Seq(Nat), n \in Nat :
          g = st[s].got /\ w = st[s].writes /\ n = dev[s].sent
    BY <1>0
  <2>2. PICK x, y : x = st'[s].got /\ y = st'[s].writes OBVIOUS
  <2>3. w # <<>> /\ x = Append(g, Head(w)) /\ y = Tail(w) /\ st'[s].end = st[s].end
    BY <1>3, <2>1, <2>2 DEF Data
  <2>4. Rises(g, w, n) BY <1>0, <2>1 DEF Rising
  <2>5. /\ Rises(x, y, n) /\ Head(w) \in 1..n /\ Below(g, Head(w))
        /\ Below(g, n) /\ Below(w, n) => Below(x, n) /\ Below(y, n)
    BY <2>3, <2>4, ReadRises
  <2>6. Rising(s)' BY <1>0, <2>1, <2>2, <2>5 DEF Rising
  <2>7. st[s].cl = "no" => Head(w) = Len(g) + 1
    <3>1. ASSUME st[s].cl = "no" PROVE \A i \in 1..Len(w) : w[i] = Len(g) + i
      BY <1>0, <2>1, <3>1 DEF Lossless, InOrder, Counts
    <3>2. Len(w) \in Nat \ {0} /\ Head(w) = w[1] BY <2>3, TailPoints
    <3>3. 1 \in 1..Len(w) BY <3>2
    <3> QED BY <3>1, <3>2, <3>3
  <2>8. PICK k : k = Head(w) OBVIOUS
  <2>9. /\ k \in 1..dev[s].sent /\ Below(st[s].got, k) /\ st'[s].got = Append(st[s].got, k)
        /\ st[s].cl # "no" \/ k = Len(st[s].got) + 1
    BY <2>1, <2>2, <2>3, <2>5, <2>7, <2>8
  <2>10. Ends!Receive(s) BY <1>1, <1>2, <2>3, <2>9, PipeReceives
  <2> QED BY <2>6, <2>10, OneMoves
<1>4. CASE st[s].writes = <<>> /\ \E e \in {"EOF"} \cup Error :
             /\ Data(st'[s], st[s].got, st[s].writes, e)
             /\ e = "EOF" => st[s].failErr \in {"none", "ErrStreamClosed"}
  <2>1. st'[s].got = st[s].got /\ st'[s].writes = st[s].writes BY <1>4 DEF Data
  <2>2. Rising(s)' BY <1>0, <2>1 DEF Rising
  <2>3. st'[s].end = "EOF" \/ st'[s].end \in Error \ {"none", "ErrStreamClosed"}
    <3>1. st' = [st EXCEPT ![s].end = IF st[s].failErr \in {"none", "ErrStreamClosed"}
                                      THEN "EOF" ELSE st[s].failErr]
      BY <1>4 DEF Read
    <3>2. st \in [Stream -> StreamState] BY <1>0 DEF TypeOK
    <3>3. st'[s].end = IF st[s].failErr \in {"none", "ErrStreamClosed"} THEN "EOF" ELSE st[s].failErr
      BY <3>1, <3>2 DEF StreamState
    <3> QED BY <1>0, <3>3
  <2>4. st'[s].end = "EOF" /\ st[s].cl = "no" => dev[s].state = "closed" /\ Len(st[s].got) = dev[s].sent
    BY <1>2, <2>1 DEF Lossless, AtEnd
  <2>5. Ends!End(s) BY <1>1, <1>2, <2>1, <2>3, <2>4, PipeEnds
  <2> QED BY <2>2, <2>5, OneMoves
<1> QED BY <1>0, <1>3, <1>4, ReadDoes

(* The steps of the host's callers. *)
LEMMA ActsPiped ==
  ASSUME PipeInv, StreamInv', NEW s \in Stream, Acts(s)
  PROVE  Piped
<1>0. TypeOK /\ \A r \in Stream : Rising(r) BY DEF PipeInv, StreamInv, TransportInv
<1>1. UNCHANGED <<toHost, pump, dev>> BY <1>0, ActsWrites
<1>2. \A r \in Stream : InFlight(r)' <=> InFlight(r) BY <1>1, Same
<1>3. ASSUME Only(s), NEW r \in Stream, r # s PROVE Rests(r) /\ Rising(r)'
  <2>1. st'[r] = st[r] BY <1>3 DEF Only
  <2>2. Rests(r) /\ Kept(r) BY <1>1, <1>2, <2>1 DEF Rests, Kept
  <2> QED BY <1>0, <2>2, KeptRises
<1>4. CASE Read(s)
  <2>1. Only(s) BY <1>0, <1>4, ReadDoes
  <2>2. Lossless(s)' BY DEF StreamInv, Wire, Sound
  <2>3. Ends!Next /\ Rising(s)' BY <1>1, <1>2, <1>3, <1>4, <2>1, <2>2, ReadPiped
  <2> QED BY <1>3, <2>1, <2>3 DEF Piped
<1>5. CASE CloseSend(s)
  <2>1. /\ Only(s) /\ Data(st'[s], st[s].got, st[s].writes, st[s].end) /\ st[s].cl = "no"
        /\ Looks(st'[s], st[s].op, st[s].ready, st[s].failErr, TRUE, st[s].remote, "remove")
    BY <1>0, <1>5, CloseSendDoes DEF CloseSend
  <2>2. st'[s].cl # "no" /\ st'[s].got = st[s].got /\ st'[s].end = st[s].end
    BY <2>1 DEF Looks, Data
  <2>3. Kept(s) BY <1>1, <1>2, <2>1 DEF Kept, Data
  <2>4. Ends!Hang(s) BY <1>1, <1>3, <2>1, <2>2, PipeHangs
  <2> QED BY <1>0, <1>3, <2>1, <2>3, <2>4, KeptRises, OneMoves DEF Piped
<1>6. CASE OpenRegister(s) \/ OpenStep(s) \/ Cancel(s) \/ WriteStep(s) \/ CloseRemove(s) \/ TeardownFail(s)
  <2>1. Only(s) /\ Data(st'[s], st[s].got, st[s].writes, st[s].end)
    BY <1>0, <1>6, OpenRegisterDoes, OpenHeaderDoes, OpenPayloadDoes, OpenReadyDoes, OpenCancelledDoes,
       CancelDoes, WriteHeaderDoes, WritePayloadDoes, CloseRemoveDoes, TeardownFailDoes
       DEF OpenStep, WriteStep
  <2>2. st'[s].cl # "no" <=> st[s].cl # "no"
    <3>1. CASE CloseRemove(s) BY <1>0, <3>1, CloseRemoveDoes DEF CloseRemove, Looks
    <3>2. CASE OpenRegister(s) \/ OpenStep(s) \/ Cancel(s) \/ WriteStep(s) \/ TeardownFail(s)
      <4>1. st'[s].cl = st[s].cl
        BY <1>0, <3>2, OpenRegisterDoes, OpenHeaderDoes, OpenPayloadDoes, OpenReadyDoes,
           OpenCancelledDoes, CancelDoes, WriteHeaderDoes, WritePayloadDoes, TeardownFailDoes
           DEF OpenStep, WriteStep, Looks
      <4> QED BY <4>1
    <3> QED BY <1>6, <3>1, <3>2
  <2>3. Rests(s) /\ Kept(s) BY <1>1, <1>2, <2>1, <2>2 DEF Rests, Kept, Data
  <2>4. \A r \in Stream : Rests(r) /\ Rising(r)' BY <1>0, <1>3, <2>1, <2>3, KeptRises
  <2> QED BY <2>4, PipesRest DEF Piped
<1> QED BY <1>4, <1>5, <1>6 DEF Acts

(* The pump's dispatch: data in flight go to the buffer, or are dropped. *)
LEMMA PumpRunPiped ==
  ASSUME PipeInv, PumpRun
  PROVE  Piped
<1>0. TypeOK /\ \A r \in Stream : Rising(r) /\ Sound(r)
  BY DEF PipeInv, StreamInv, TransportInv, Wire
<1>1. PICK s \in Stream : /\ Dispatch(s)
                          /\ \/ pump.m.cmd = "OKAY" /\ onReady(s)
                             \/ pump.m.cmd = "WRTE" /\ onWrite(s, pump.m.n) /\ pump.m.n \in Nat
                             \/ pump.m.cmd = "CLSE" /\ onClose(s)
  BY <1>0, PumpRunDispatch
<1>2. UNCHANGED <<toHost, dev>> /\ Only(s) BY <1>1 DEF Dispatch
<1>3. \A r \in Stream : InFlight(r)' => Comes(toHost, "WRTE", r) BY <1>1, <1>2 DEF Dispatch, InFlight, InHand
<1>4. \A r \in Stream : InFlight(r)' => InFlight(r) BY <1>3 DEF InFlight
<1>5. ASSUME NEW r \in Stream, r # s PROVE Rests(r) /\ Rising(r)'
  <2>1. st'[r] = st[r] BY <1>2, <1>5 DEF Only
  <2>2. Rests(r) /\ Kept(r) BY <1>2, <1>4, <2>1 DEF Rests, Kept
  <2> QED BY <1>0, <2>2, KeptRises
<1>6. CASE pump.m.cmd = "WRTE" /\ onWrite(s, pump.m.n) /\ pump.m.n \in Nat
  <2>1. PICK n \in Nat : n = pump.m.n BY <1>6
  <2>2. /\ Looks(st'[s], st[s].op, st[s].ready, st[s].failErr, st[s].closed, st[s].remote, st[s].cl)
        /\ \/ Data(st'[s], st[s].got, Append(st[s].writes, n), st[s].end)
           \/ Data(st'[s], st[s].got, st[s].writes, st[s].end)
    BY <1>0, <1>6, <2>1, onWriteDoes
  <2>3. Rests(s)
    <3>1. st'[s].cl = st[s].cl BY <2>2 DEF Looks
    <3>2. st'[s].got = st[s].got /\ st'[s].end = st[s].end BY <2>2 DEF Data
    <3> QED BY <1>2, <3>1, <3>2 DEF Rests
  <2>4. InHand("WRTE", s) BY <1>1, <1>6 DEF Dispatch, InHand
  <2>5. InFlight(s) /\ ~InFlight(s)' /\ n = dev[s].sent
    <3>1. ~Comes(toHost, "WRTE", s) BY <1>0, <2>4 DEF Sound, OneOut
    <3> QED BY <1>0, <1>3, <2>1, <2>4, <3>1 DEF InFlight, Sound, OneOut
  <2>6. CASE Data(st'[s], st[s].got, st[s].writes, st[s].end)
    <3>1. Kept(s) BY <1>2, <1>4, <2>6 DEF Kept, Data
    <3>2. \A r \in Stream : Rests(r) /\ Rising(r)' BY <1>0, <1>5, <2>3, <3>1, KeptRises
    <3> QED BY <3>2, PipesRest DEF Piped
  <2>7. CASE Data(st'[s], st[s].got, Append(st[s].writes, n), st[s].end)
    <3>1. st[s].got \in Seq(Nat) /\ st[s].writes \in Seq(Nat) BY <1>0 DEF TypeOK, StreamState
    <3>2. PICK g \in Seq(Nat), w \in Seq(Nat) : g = st[s].got /\ w = st[s].writes BY <3>1
    <3>3. PICK y : y = st'[s].writes OBVIOUS
    <3>4. y = Append(w, n) /\ st'[s].got = g BY <2>7, <3>2, <3>3 DEF Data
    <3>5. Rises(g, w, n) /\ 0 < n /\ Below(g, n) /\ Below(w, n) BY <1>0, <2>5, <3>2 DEF Rising
    <3>6. Rises(g, y, n) BY <3>4, <3>5, BufferRises
    <3>7. Rising(s)' BY <1>2, <2>5, <3>3, <3>4, <3>6 DEF Rising
    <3>8. \A r \in Stream : Rests(r) /\ Rising(r)' BY <1>5, <2>3, <3>7
    <3> QED BY <3>8, PipesRest DEF Piped
  <2> QED BY <2>2, <2>6, <2>7
<1>7. CASE (pump.m.cmd = "OKAY" /\ onReady(s)) \/ (pump.m.cmd = "CLSE" /\ onClose(s))
  <2>1. Data(st'[s], st[s].got, st[s].writes, st[s].end) /\ st'[s].cl = st[s].cl
    BY <1>0, <1>7, onReadyDoes, onCloseDoes DEF Looks
  <2>2. Rests(s) /\ Kept(s) BY <1>2, <1>4, <2>1 DEF Rests, Kept, Data
  <2>3. \A r \in Stream : Rests(r) /\ Rising(r)' BY <1>0, <1>5, <2>2, KeptRises
  <2> QED BY <2>3, PipesRest DEF Piped
<1> QED BY <1>1, <1>6, <1>7

(* The pump's other steps, the teardown's and the connection's. *)
LEMMA StillPiped ==
  ASSUME PipeInv, PumpError \/ PumpRead \/ PumpAck \/ TeardownEnd \/ Shut \/ DeviceOther
                    \/ DeviceDrops \/ UNCHANGED vars
  PROVE  Piped
<1>0. TypeOK /\ \A r \in Stream : Rising(r) BY DEF PipeInv, StreamInv, TransportInv
<1>1. UNCHANGED <<st, dev>>
  BY DEF PumpError, PumpRead, PumpAck, TeardownEnd, Shut, DeviceOther, DeviceDrops, external, host, vars
<1>2. ASSUME NEW r \in Stream PROVE InFlight(r)' => InFlight(r)
  <2>1. CASE DeviceOther
    <3>1. NoMsg \in Message /\ toHost' = Append(toHost, NoMsg) /\ pump' = pump /\ NoMsg.cmd # "WRTE"
      BY <2>1 DEF Message, NoMsg, DeviceOther, host
    <3> QED BY <1>0, <3>1, GainedFlight
  <2>2. CASE DeviceDrops BY <1>0, <2>2, GainedFlight DEF DeviceDrops, host
  <2> QED BY <1>0, <2>1, <2>2, TakenFlight, StopsFlight
<1>3. \A r \in Stream : Rests(r) /\ Kept(r) BY <1>1, <1>2 DEF Rests, Kept
<1> QED BY <1>0, <1>3, NobodyMoves

(* The device's end of one stream changes: its data, or its state. *)
LEMMA DevicePiped ==
  ASSUME PipeInv, UNCHANGED <<st, pump>>, NEW s \in Stream,
         \A r \in Stream : r # s => dev'[r] = dev[r], dev'[s].sent = dev[s].sent,
         dev[s].state = "closed" => dev'[s].state = "closed",
         toHost' = toHost \/ \E m \in Message : toHost' = Append(toHost, m) /\ m.cmd # "WRTE"
  PROVE  Piped
<1>0. TypeOK /\ \A r \in Stream : Rising(r) BY DEF PipeInv, StreamInv, TransportInv
<1>1. \A r \in Stream : InFlight(r)' => InFlight(r) BY <1>0, GainedFlight
<1>2. \A r \in Stream : Kept(r) BY <1>1 DEF Kept
<1>3. \A r \in Stream : Rising(r)' BY <1>0, <1>2, KeptRises
<1>4. \A r \in Stream : r # s => Rests(r) BY DEF Rests
<1>5. CASE dev'[s].state = "closed" <=> dev[s].state = "closed"
  <2>1. Rests(s) BY <1>5 DEF Rests
  <2> QED BY <1>3, <1>4, <2>1, PipesRest DEF Piped
<1>6. CASE dev[s].state # "closed" /\ dev'[s].state = "closed"
  <2>1. Ends!Finish(s) BY <1>4, <1>6, PipeFinishes
  <2> QED BY <1>3, <2>1, OneMoves DEF Piped
<1> QED BY <1>5, <1>6

(* The device handles a message: an OPEN is the first of its stream. *)
LEMMA HandlesPiped ==
  ASSUME PipeInv, UNCHANGED <<st, pump>>, NEW cmd \in {"OPEN", "OKAY", "WRTE", "CLSE"},
         NEW s \in Stream, DeviceHandles(cmd, s), cmd = "OPEN" => dev[s].state # "closed"
  PROVE  Piped
<1>1. dev \in [Stream -> DevState] /\ dev[s] \in DevState
  BY DEF PipeInv, StreamInv, TransportInv, TypeOK
<1>2. /\ \A r \in Stream : r # s => dev'[r] = dev[r]
      /\ dev'[s].sent = dev[s].sent
      /\ dev[s].state = "closed" => dev'[s].state = "closed"
  <2>1. CASE cmd = "OPEN" BY <1>1, <2>1 DEF DeviceHandles, DevState
  <2>2. CASE cmd = "WRTE" BY <2>2 DEF DeviceHandles
  <2>3. CASE cmd = "OKAY" BY <1>1, <2>3 DEF DeviceHandles, DevState
  <2>4. CASE cmd = "CLSE" BY <1>1, <2>4 DEF DeviceHandles, DevState
  <2> QED BY <2>1, <2>2, <2>3, <2>4
<1>3. toHost' = toHost \/ \E m \in Message : toHost' = Append(toHost, m) /\ m.cmd # "WRTE"
  <2>1. /\ Msg("OKAY", s, 0) \in Message /\ Msg("CLSE", s, 0) \in Message
        /\ Msg("OKAY", s, 0).cmd # "WRTE" /\ Msg("CLSE", s, 0).cmd # "WRTE"
    BY ChunkTypes DEF Msg
  <2> QED BY <2>1 DEF DeviceHandles
<1> QED BY <1>2, <1>3, DevicePiped

(* The device reads a chunk. *)
LEMMA ReadsPiped ==
  ASSUME PipeInv, DeviceReads
  PROVE  Piped
<1>0. TypeOK /\ Wire BY DEF PipeInv, StreamInv, TransportInv
<1>1. UNCHANGED <<st, pump>> /\ toDevice # <<>> /\ toDevice' = Tail(toDevice) /\ toDevice \in Seq(Chunk)
  BY <1>0 DEF TypeOK, DeviceReads, host
<1>2. PICK k : k = Head(toDevice) OBVIOUS
<1>3. k \in Chunk BY <1>1, <1>2
<1>4. OnWay(toDevice, k) BY <1>0, <1>1, <1>2, DrainTail
<1>5. PICK s \in Stream, cmd \in {"OPEN", "OKAY", "WRTE", "CLSE"} : s = k.s /\ cmd = k.cmd
  BY <1>3 DEF Chunk
<1>6. ASSUME UNCHANGED <<dev, toHost>> PROVE Piped BY <1>1, <1>5, <1>6, DevicePiped
<1>7. CASE k.part = "header" /\ ~HasPayload(k) /\ DeviceHandles(k.cmd, k.s)
  <2>1. cmd # "OPEN" BY <1>5, <1>7 DEF HasPayload
  <2> QED BY <1>1, <1>5, <1>7, <2>1, HandlesPiped
<1>8. CASE k = Payload(pending.cmd, pending.s) /\ DeviceHandles(k.cmd, k.s)
  <2>1. cmd = "OPEN" => k = Payload("OPEN", s) BY <1>5, <1>8 DEF Payload
  <2>2. cmd = "OPEN" => dev[s].state = "none" BY <1>0, <1>4, <2>1 DEF Wire, Sound, Out
  <2> QED BY <1>1, <1>5, <1>8, <2>2, HandlesPiped
<1> QED BY <1>2, <1>6, <1>7, <1>8 DEF DeviceReads

(* The device writes the next datum. *)
LEMMA WritesPiped ==
  ASSUME PipeInv, NEW s \in Stream, DeviceWrites(s)
  PROVE  Piped
<1>0. /\ TypeOK /\ \A r \in Stream : Rising(r)
      /\ dev \in [Stream -> DevState] /\ dev[s] \in DevState
      /\ st[s].got \in Seq(Nat) /\ st[s].writes \in Seq(Nat)
  BY DEF PipeInv, StreamInv, TransportInv, TypeOK, StreamState
<1>1. PICK n \in Nat, k \in Nat : n = dev[s].sent /\ k = n + 1
  <2>1. dev[s].sent \in Nat BY <1>0 DEF DevState
  <2> QED BY <2>1
<1>2. /\ dev[s].state = "open" /\ UNCHANGED <<st, pump>>
      /\ dev' = [dev EXCEPT ![s] = [dev[s] EXCEPT !.sent = k, !.waits = TRUE]]
      /\ toHost' = Append(toHost, Msg("WRTE", s, k))
  BY <1>1 DEF DeviceWrites, host
<1>3. /\ dev'[s].state = "open" /\ dev'[s].sent = k
      /\ \A r \in Stream : r # s => dev'[r] = dev[r]
  BY <1>0, <1>2 DEF DevState
<1>4. PICK m \in Message : m = Msg("WRTE", s, k)
  <2>1. Msg("WRTE", s, k) \in Message BY ChunkTypes
  <2> QED BY <2>1
<1>5. ASSUME NEW r \in Stream, r # s PROVE Rests(r) /\ Rising(r)'
  <2>1. m.s # r /\ toHost' = Append(toHost, m) BY <1>2, <1>4, <1>5 DEF Msg
  <2>2. InFlight(r)' => InFlight(r) BY <1>0, <1>2, <2>1, GainedFlight
  <2>3. Rests(r) /\ Kept(r) BY <1>2, <1>3, <1>5, <2>2 DEF Rests, Kept
  <2> QED BY <1>0, <2>3, KeptRises
<1>6. Rising(s)'
  <2>1. PICK g \in Seq(Nat), w \in Seq(Nat) : g = st[s].got /\ w = st[s].writes BY <1>0
  <2>2. Rises(g, w, n) BY <1>0, <1>1, <2>1 DEF Rising
  <2>3. Rises(g, w, k) /\ 0 < k /\ Below(g, k) /\ Below(w, k) BY <1>1, <2>2, SentRises
  <2> QED BY <1>2, <1>3, <2>1, <2>3 DEF Rising
<1>7. Ends!Send(s)
  <2>1. dev'[s].sent = dev[s].sent + 1 BY <1>1, <1>3
  <2> QED BY <1>2, <1>3, <1>5, <2>1, PipeSends
<1> QED BY <1>5, <1>6, <1>7, OneMoves DEF Piped

(* The device closes its end. *)
LEMMA ClosesPiped ==
  ASSUME PipeInv, NEW s \in Stream, DeviceCloses(s)
  PROVE  Piped
<1>0. dev \in [Stream -> DevState] /\ dev[s] \in DevState
  BY DEF PipeInv, StreamInv, TransportInv, TypeOK
<1>1. /\ UNCHANGED <<st, pump>> /\ dev' = [dev EXCEPT ![s] = [dev[s] EXCEPT !.state = "closed"]]
      /\ toHost' = Append(toHost, Msg("CLSE", s, 0))
  BY DEF DeviceCloses, host
<1>2. /\ dev'[s].state = "closed" /\ dev'[s].sent = dev[s].sent
      /\ \A r \in Stream : r # s => dev'[r] = dev[r]
  BY <1>0, <1>1 DEF DevState
<1>3. Msg("CLSE", s, 0) \in Message /\ Msg("CLSE", s, 0).cmd # "WRTE" BY ChunkTypes DEF Msg
<1> QED BY <1>1, <1>2, <1>3, DevicePiped

(* Every step is a step of the pipes. *)
LEMMA PipeStep ==
  ASSUME PipeInv, StreamInv', [Next]_vars
  PROVE  Piped
BY Steps, ActsPiped, PumpRunPiped, StillPiped, ReadsPiped, WritesPiped, ClosesPiped DEF Elsewhere

(* No pipe holds anything. *)
LEMMA PipeInit == Init => Ends!Init /\ \A s \in Stream : Rising(s)
<1> SUFFICES ASSUME Init PROVE Ends!Init /\ \A s \in Stream : Rising(s) OBVIOUS
<1>1. ASSUME NEW s \in Stream
      PROVE  /\ dev[s].sent = 0 /\ dev[s].state # "closed" /\ st[s].got = <<>> /\ st[s].writes = <<>>
             /\ st[s].end = "no" /\ st[s].cl = "no"
  <2>1. st[s] = NewStream /\ dev[s] = [state |-> "none", sent |-> 0, waits |-> FALSE] BY DEF Init
  <2> QED BY <2>1 DEF NewStream
<1>2. ASSUME NEW s \in Stream PROVE Rising(s)
  <2>1. Len(<<>>) = 0 /\ 1..0 = {} OBVIOUS
  <2>2. ~InFlight(s)
    <3>1. toHost = <<>> /\ pump.pc = "read" BY DEF Init
    <3> QED BY <2>1, <3>1 DEF InFlight, Comes, InHand
  <2>3. Rises(<<>>, <<>>, 0) BY <2>1 DEF Rises, Below
  <2> QED BY <1>1, <2>2, <2>3 DEF Rising
<1>3. [s \in Stream |-> dev[s].sent] = [p \in Stream |-> 0] BY <1>1
<1>4. [s \in Stream |-> st[s].got] = [p \in Stream |-> <<>>] BY <1>1
<1>5. [s \in Stream |-> st[s].end] = [p \in Stream |-> "no"] BY <1>1
<1>6. [s \in Stream |-> dev[s].state = "closed"] = [p \in Stream |-> FALSE] BY <1>1
<1>7. [s \in Stream |-> st[s].cl # "no"] = [p \in Stream |-> FALSE] BY <1>1
<1> QED BY <1>2, <1>3, <1>4, <1>5, <1>6, <1>7 DEF Ends!Init

(* Every stream is a pipe from the device to its reader: what is read was   *)
(* written and comes in order, without a gap until the host closes, and no  *)
(* end of file comes before the data in front of it, for any number of      *)
(* streams and any buffer, however the pump, the callers, teardown and the  *)
(* device interleave (open, Read, Close, onWrite, onClose, fail, readPump:  *)
(* transport.go).                                                           *)
THEOREM StreamsCarryPipes == Spec => StreamsArePipes
<1>1. Init => PipeInv /\ Ends!Init
  BY TypeInit, PeersInit, WireInit, PipeInit DEF PipeInv, StreamInv, TransportInv
<1>2. PipeInv /\ [Next]_vars => PipeInv' /\ [Ends!Next]_(Ends!vars)
  <2>1. SUFFICES ASSUME PipeInv, [Next]_vars PROVE PipeInv' /\ [Ends!Next]_(Ends!vars) OBVIOUS
  <2>2. StreamInv'
    BY <2>1, TypeStep, PeersStep, WokenStep, WireStep DEF PipeInv, StreamInv, TransportInv
  <2>3. Piped BY <2>1, <2>2, PipeStep
  <2> QED BY <2>2, <2>3 DEF PipeInv, Piped
<1> QED BY <1>1, <1>2, PTL DEF Spec, StreamsArePipes, Ends!Spec
=============================================================================
