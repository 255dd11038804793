----------------------------- MODULE AdbTransport -----------------------------
(***************************************************************************)
(* muxTransport and muxStream (src/android/adb/transport.go): one ADB       *)
(* connection to a device that carries many streams.  On the host, one      *)
(* goroutine per call of open, a reader and a writer per stream, whoever    *)
(* calls Close, and readPump, which alone reads the connection.             *)
(*                                                                         *)
(* writeMessage sends a header and then the payload, two writes on the      *)
(* connection, so toDevice is a sequence of chunks.  The device (external)  *)
(* follows the ADB protocol: it answers OPEN with OKAY or CLSE, has one     *)
(* WRTE per stream outstanding, and drops a connection whose framing is     *)
(* broken.  Data are numbered; the TCP send buffer is unbounded.            *)
(***************************************************************************)
EXTENDS Integers, Sequences

CONSTANTS
  Stream,     \* the calls of open, one local id each (nextID)
  BufferCap,  \* capacity of a stream's channel of writes, 16 in the code
  MaxSent,    \* bound: WRTEs the device sends on each stream
  MaxWrites,  \* bound: WRTEs the host sends on a stream
  Events,     \* what may happen besides: "cancel", "close", "shut", "drop", "other"
  NoStream

ASSUME AdbAssumption ==
  /\ BufferCap \in Nat \ {0} /\ MaxSent \in [Stream -> Nat] /\ MaxWrites \in Nat
  /\ Events \subseteq {"cancel", "close", "shut", "drop", "other"}
  /\ NoStream \notin Stream

VARIABLES
  st,        \* the muxStream of each local id, with the goroutines that use it
  streams,   \* t.streams: the registered ids
  closed,    \* t.closed
  writeMu,   \* holder of t.writeMu
  pump,      \* readPump: where it is, and the message in hand
  reaper,    \* the one teardown that found t.closed unset
  conn,      \* "up", "lost" (the peer is gone) or "shut" (closed here)
  toDevice,  \* chunks written and not yet read by the device
  toHost,    \* messages written by the device and not yet read
  dev,       \* external: the device's end of each stream
  pending    \* external: the header whose payload the device expects

vars == <<st, streams, closed, writeMu, pump, reaper, conn, toDevice, toHost, dev, pending>>

NoMsg == [cmd |-> "OTHER", s |-> NoStream, n |-> 0]
Msg(cmd, s, n) == [cmd |-> cmd, s |-> s, n |-> n]
Header(cmd, s)  == [part |-> "header", cmd |-> cmd, s |-> s]
Payload(cmd, s) == [part |-> "payload", cmd |-> cmd, s |-> s]

(* op: the goroutine in open; res: its result; wr: the goroutine in Write;  *)
(* cl: the goroutine in Close; ctx: the context is done; got, end: what the *)
(* reader has had.                                                          *)
NewStream ==
  [op |-> "idle", res |-> "none", ready |-> FALSE, failErr |-> "none",
   closed |-> FALSE, writes |-> <<>>, remote |-> FALSE, ctx |-> FALSE,
   wr |-> "idle", wrote |-> 0, cl |-> "no",
   got |-> <<>>, end |-> "no"]

Init ==
  /\ st = [s \in Stream |-> NewStream] /\ streams = {} /\ closed = FALSE
  /\ writeMu = NoStream
  /\ pump = [pc |-> "read", m |-> NoMsg]
  /\ reaper = [pc |-> "none", by |-> "none", err |-> "none", left |-> {}]
  /\ conn = "up" /\ toDevice = <<>> /\ toHost = <<>>
  /\ dev = [s \in Stream |-> [state |-> "none", sent |-> 0, waits |-> FALSE]]
  /\ pending = Header("OKAY", NoStream)

(* One conn.Write; a broken connection returns an error instead. *)
Up == conn = "up"
Sent(chunk) == IF Up THEN Append(toDevice, chunk) ELSE toDevice

external == <<dev, pending>>
-----------------------------------------------------------------------------
(* open *)

(* Mutant of OpenRegister: t.closed is not looked at under the lock. *)
OpenRegisterUnchecked(s) ==
  /\ st[s].op = "idle"
  /\ st' = [st EXCEPT ![s].op = "header"] /\ streams' = streams \cup {s}
  /\ UNCHANGED <<closed, writeMu, pump, reaper, conn, toDevice, toHost, external>>

OpenRegister(s) ==
  /\ st[s].op = "idle"
  /\ IF closed
     THEN /\ st' = [st EXCEPT ![s].op = "failed", ![s].res = "ErrClosed"]
          /\ UNCHANGED streams
     ELSE st' = [st EXCEPT ![s].op = "header"] /\ streams' = streams \cup {s}
  /\ UNCHANGED <<closed, writeMu, pump, reaper, conn, toDevice, toHost, external>>

(* writeMessage under writeMu: the header, then the payload.  A failed      *)
(* write releases the lock and removes the stream.                          *)
OpenHeader(s) ==
  /\ st[s].op = "header" /\ writeMu = NoStream
  /\ IF Up
     THEN /\ writeMu' = s /\ st' = [st EXCEPT ![s].op = "payload"] /\ UNCHANGED streams
     ELSE /\ streams' = streams \ {s} /\ UNCHANGED writeMu
          /\ st' = [st EXCEPT ![s].op = "failed", ![s].res = "write"]
  /\ toDevice' = Sent(Header("OPEN", s))
  /\ UNCHANGED <<closed, pump, reaper, conn, toHost, external>>

OpenPayload(s) ==
  /\ st[s].op = "payload" /\ writeMu' = NoStream
  /\ IF Up
     THEN st' = [st EXCEPT ![s].op = "select"] /\ UNCHANGED streams
     ELSE /\ streams' = streams \ {s}
          /\ st' = [st EXCEPT ![s].op = "failed", ![s].res = "write"]
  /\ toDevice' = Sent(Payload("OPEN", s))
  /\ UNCHANGED <<closed, pump, reaper, conn, toHost, external>>

OpenReady(s) ==
  /\ st[s].op = "select" /\ st[s].ready
  /\ IF st[s].failErr = "none"
     THEN st' = [st EXCEPT ![s].op = "open", ![s].res = "ok"] /\ UNCHANGED streams
     ELSE /\ st' = [st EXCEPT ![s].op = "failed", ![s].res = st[s].failErr]
          /\ streams' = streams \ {s}
  /\ UNCHANGED <<closed, writeMu, pump, reaper, conn, toDevice, toHost, external>>

OpenCancelled(s) ==
  /\ st[s].op = "select" /\ st[s].ctx
  /\ st' = [st EXCEPT ![s].op = "failed", ![s].res = "ctx"]
  /\ streams' = streams \ {s}
  /\ UNCHANGED <<closed, writeMu, pump, reaper, conn, toDevice, toHost, external>>

(* The caller's context is cancelled or times out; only open looks at it.   *)
Cancel(s) ==
  /\ "cancel" \in Events /\ st[s].op = "select" /\ ~st[s].ctx
  /\ st' = [st EXCEPT ![s].ctx = TRUE]
  /\ UNCHANGED <<streams, closed, writeMu, pump, reaper, conn, toDevice, toHost, external>>
-----------------------------------------------------------------------------
(* An open stream: Read, Write, Close *)

(* Read takes what is buffered before it looks at the reason of the end. *)
Read(s) ==
  /\ st[s].op = "open" /\ st[s].end = "no"
  /\ \/ /\ st[s].writes # <<>>
        /\ st' = [st EXCEPT ![s].got = Append(@, Head(st[s].writes)), ![s].writes = Tail(@)]
     \/ /\ st[s].writes = <<>> /\ st[s].closed
        /\ st' = [st EXCEPT ![s].end = IF st[s].failErr \in {"none", "ErrStreamClosed"}
                                       THEN "EOF" ELSE st[s].failErr]
  /\ UNCHANGED <<streams, closed, writeMu, pump, reaper, conn, toDevice, toHost, external>>

(* Write: no lock, and no wait for the OKAY of the write before. *)
WriteHeader(s) ==
  /\ st[s].op = "open" /\ st[s].wr = "idle" /\ st[s].wrote < MaxWrites
  /\ ~st[s].closed /\ Up
  /\ st' = [st EXCEPT ![s].wr = "payload", ![s].wrote = @ + 1]
  /\ toDevice' = Sent(Header("WRTE", s))
  /\ UNCHANGED <<streams, closed, writeMu, pump, reaper, conn, toHost, external>>

WritePayload(s) ==
  /\ st[s].wr = "payload"
  /\ st' = [st EXCEPT ![s].wr = "idle"]
  /\ toDevice' = Sent(Payload("WRTE", s))
  /\ UNCHANGED <<streams, closed, writeMu, pump, reaper, conn, toHost, external>>

(* Close sends CLSE unless the peer or a teardown closed the stream first,  *)
(* then forgets the stream.                                                 *)
CloseSend(s) ==
  /\ "close" \in Events /\ st[s].op = "open" /\ st[s].cl = "no"
  /\ st' = [st EXCEPT ![s].cl = "remove", ![s].closed = TRUE]
  /\ toDevice' = IF st[s].closed THEN toDevice ELSE Sent(Header("CLSE", s))
  /\ UNCHANGED <<streams, closed, writeMu, pump, reaper, conn, toHost, external>>

CloseRemove(s) ==
  /\ st[s].cl = "remove"
  /\ st' = [st EXCEPT ![s].cl = "done"] /\ streams' = streams \ {s}
  /\ UNCHANGED <<closed, writeMu, pump, reaper, conn, toDevice, toHost, external>>
-----------------------------------------------------------------------------
(* teardown *)

TeardownBegin(by, err) ==
  /\ closed' = TRUE /\ streams' = {}
  /\ reaper' = [pc |-> "fail", by |-> by, err |-> err, left |-> streams]

(* Mutant of TeardownFail: the reader and the pump are not told. *)
TeardownFailQuiet(s) ==
  /\ reaper.pc = "fail" /\ s \in reaper.left
  /\ st' = [st EXCEPT ![s].failErr = reaper.err, ![s].ready = TRUE]
  /\ reaper' = [reaper EXCEPT !.left = @ \ {s}]
  /\ UNCHANGED <<streams, closed, writeMu, pump, conn, toDevice, toHost, external>>

(* muxStream.fail *)
TeardownFail(s) ==
  /\ reaper.pc = "fail" /\ s \in reaper.left
  /\ st' = [st EXCEPT ![s].failErr = reaper.err, ![s].closed = TRUE, ![s].ready = TRUE]
  /\ reaper' = [reaper EXCEPT !.left = @ \ {s}]
  /\ UNCHANGED <<streams, closed, writeMu, pump, conn, toDevice, toHost, external>>

TeardownEnd ==
  /\ reaper.pc = "fail" /\ reaper.left = {}
  /\ reaper' = [reaper EXCEPT !.pc = "done"] /\ conn' = "shut"
  /\ pump' = IF reaper.by = "pump" THEN [pump EXCEPT !.pc = "dead"] ELSE pump
  /\ UNCHANGED <<st, streams, closed, writeMu, toDevice, toHost, external>>

(* muxTransport.close, from Device.Close; a second teardown returns. *)
Shut ==
  /\ "shut" \in Events /\ ~closed
  /\ TeardownBegin("user", "ErrClosed")
  /\ UNCHANGED <<st, writeMu, pump, conn, toDevice, toHost, external>>
-----------------------------------------------------------------------------
(* readPump *)

PumpStops(err) ==
  IF closed
  THEN pump' = [pump EXCEPT !.pc = "dead"] /\ UNCHANGED <<streams, closed, reaper>>
  ELSE pump' = [pump EXCEPT !.pc = "reap"] /\ TeardownBegin("pump", err)

PumpError ==
  /\ pump.pc = "read"
  /\ conn = "shut" \/ (conn = "lost" /\ toHost = <<>>)
  /\ PumpStops("read")
  /\ UNCHANGED <<st, writeMu, conn, toDevice, toHost, external>>

(* readMessage, and dispatch's look at t.streams. *)
PumpRead ==
  /\ pump.pc = "read" /\ conn # "shut" /\ toHost # <<>>
  /\ toHost' = Tail(toHost)
  /\ LET m == Head(toHost) IN
       CASE m.cmd \notin {"OKAY", "WRTE", "CLSE"} -> PumpStops("ErrProtocol")
         [] m.cmd \in {"OKAY", "WRTE", "CLSE"} /\ m.s \in streams ->
              pump' = [pc |-> "run", m |-> m] /\ UNCHANGED <<streams, closed, reaper>>
         [] OTHER -> UNCHANGED <<pump, streams, closed, reaper>>
  /\ UNCHANGED <<st, writeMu, conn, toDevice, external>>

(* The first OKAY of a stream establishes it, the others acknowledge. *)
onReady(s) == st' = [st EXCEPT ![s].remote = TRUE, ![s].ready = TRUE]

(* Mutant of onWrite: a full buffer loses its oldest entry. *)
onWriteEvicts(s, n) ==
  st' = [st EXCEPT ![s].writes = Append(IF Len(@) < BufferCap THEN @ ELSE Tail(@), n)]

(* Waits for room in the buffer or for the stream to be closed; when both   *)
(* are there, select takes either.                                          *)
onWrite(s, n) ==
  \/ Len(st[s].writes) < BufferCap /\ st' = [st EXCEPT ![s].writes = Append(@, n)]
  \/ st[s].closed /\ UNCHANGED st

(* Mutants of onClose: a refusal does not wake open; a refusal before the   *)
(* stream is ready looks like a close after it.                             *)
onCloseDeaf(s) == st' = [st EXCEPT ![s].closed = TRUE]

onCloseQuiet(s) == st' = [st EXCEPT ![s].closed = TRUE, ![s].ready = TRUE]

onClose(s) ==
  st' = [st EXCEPT ![s].closed = TRUE, ![s].ready = TRUE,
                   ![s].failErr = IF st[s].ready THEN @ ELSE "ErrStreamClosed"]

PumpRun ==
  /\ pump.pc = "run"
  /\ CASE pump.m.cmd = "OKAY" -> onReady(pump.m.s)
       [] pump.m.cmd = "WRTE" -> onWrite(pump.m.s, pump.m.n)
       [] pump.m.cmd = "CLSE" -> onClose(pump.m.s)
  /\ pump' = [pump EXCEPT !.pc = IF pump.m.cmd = "WRTE" THEN "ack" ELSE "read"]
  /\ UNCHANGED <<streams, closed, writeMu, reaper, conn, toDevice, toHost, external>>

(* The acknowledgement goes out without writeMu. *)
PumpAck ==
  /\ pump.pc = "ack"
  /\ pump' = [pump EXCEPT !.pc = "read"]
  /\ toDevice' = Sent(Header("OKAY", pump.m.s))
  /\ UNCHANGED <<st, streams, closed, writeMu, reaper, conn, toHost, external>>
-----------------------------------------------------------------------------
(* The device: external *)

host == <<st, streams, closed, writeMu, pump, reaper>>
HasPayload(chunk) == chunk.cmd \in {"OPEN", "WRTE"}
Idle == pending.s = NoStream

(* What the device does with a complete message on stream s. *)
DeviceHandles(cmd, s) ==
  CASE cmd = "OPEN" ->
         \/ /\ dev' = [dev EXCEPT ![s].state = "open"]
            /\ toHost' = Append(toHost, Msg("OKAY", s, 0))
         \/ /\ dev' = [dev EXCEPT ![s].state = "closed"]
            /\ toHost' = Append(toHost, Msg("CLSE", s, 0))
    [] cmd = "WRTE" -> /\ toHost' = IF dev[s].state = "open"
                                    THEN Append(toHost, Msg("OKAY", s, 0)) ELSE toHost
                       /\ UNCHANGED dev
    [] cmd = "OKAY" -> dev' = [dev EXCEPT ![s].waits = FALSE] /\ UNCHANGED toHost
    [] cmd = "CLSE" -> dev' = [dev EXCEPT ![s].state = "closed"] /\ UNCHANGED toHost

DeviceReads ==
  /\ Up /\ toDevice # <<>> /\ toDevice' = Tail(toDevice)
  /\ LET k == Head(toDevice) IN
     \/ /\ Idle /\ k.part = "header" /\ HasPayload(k) /\ pending' = k
        /\ UNCHANGED <<dev, toHost, conn>>
     \/ /\ Idle /\ k.part = "header" /\ ~HasPayload(k)
        /\ DeviceHandles(k.cmd, k.s) /\ UNCHANGED <<pending, conn>>
     \/ /\ ~Idle /\ k = Payload(pending.cmd, pending.s)
        /\ DeviceHandles(k.cmd, k.s)
        /\ pending' = Header("OKAY", NoStream) /\ UNCHANGED conn
     \/ /\ (IF Idle THEN k.part = "payload" ELSE k # Payload(pending.cmd, pending.s))
        /\ conn' = "lost" /\ UNCHANGED <<dev, toHost, pending>>
  /\ UNCHANGED host

DeviceWrites(s) ==
  /\ Up /\ dev[s].state = "open" /\ ~dev[s].waits /\ dev[s].sent < MaxSent[s]
  /\ dev' = [dev EXCEPT ![s].sent = @ + 1, ![s].waits = TRUE]
  /\ toHost' = Append(toHost, Msg("WRTE", s, dev[s].sent + 1))
  /\ UNCHANGED <<host, conn, toDevice, pending>>

DeviceCloses(s) ==
  /\ Up /\ dev[s].state = "open"
  /\ dev' = [dev EXCEPT ![s].state = "closed"]
  /\ toHost' = Append(toHost, Msg("CLSE", s, 0))
  /\ UNCHANGED <<host, conn, toDevice, pending>>

(* A command that has no place on an established transport, and the loss of *)
(* the connection.                                                          *)
DeviceOther ==
  /\ "other" \in Events /\ Up /\ \A i \in DOMAIN toHost : toHost[i].cmd # "OTHER"
  /\ toHost' = Append(toHost, NoMsg)
  /\ UNCHANGED <<host, conn, toDevice, external>>

DeviceDrops ==
  /\ "drop" \in Events /\ Up /\ conn' = "lost"
  /\ UNCHANGED <<host, toDevice, toHost, external>>
-----------------------------------------------------------------------------
OpenStep(s)  == OpenHeader(s) \/ OpenPayload(s) \/ OpenReady(s) \/ OpenCancelled(s)
WriteStep(s) == WriteHeader(s) \/ WritePayload(s)
PumpStep     == PumpError \/ PumpRead \/ PumpRun \/ PumpAck

Next ==
  \/ \E s \in Stream : \/ OpenRegister(s) \/ OpenStep(s) \/ Cancel(s)
                       \/ Read(s) \/ WriteStep(s) \/ CloseSend(s) \/ CloseRemove(s)
                       \/ TeardownFail(s) \/ DeviceWrites(s) \/ DeviceCloses(s)
  \/ PumpStep \/ TeardownEnd \/ Shut
  \/ DeviceReads \/ DeviceOther \/ DeviceDrops

Spec == Init /\ [][Next]_vars

(* The Go scheduler runs every goroutine that can run and the device        *)
(* answers what it receives.  Nothing is assumed of the callers: they may   *)
(* stop reading a stream, and cancel or close when they like.               *)
FairSpec ==
  /\ Spec
  /\ \A s \in Stream : WF_vars(OpenStep(s)) /\ WF_vars(WritePayload(s))
                       /\ WF_vars(CloseRemove(s)) /\ WF_vars(TeardownFail(s))
  /\ WF_vars(PumpStep) /\ WF_vars(TeardownEnd) /\ WF_vars(DeviceReads)
-----------------------------------------------------------------------------
Error == {"none", "ErrClosed", "ErrStreamClosed", "ErrProtocol", "read", "write", "ctx"}
StreamState ==
  [op: {"idle", "header", "payload", "select", "open", "failed"},
   res: Error \cup {"ok"}, ready: BOOLEAN, failErr: Error, closed: BOOLEAN,
   writes: Seq(Nat), remote: BOOLEAN, ctx: BOOLEAN, wr: {"idle", "payload"},
   wrote: Nat, cl: {"no", "remove", "done"},
   got: Seq(Nat), end: Error \cup {"no", "EOF"}]

Chunk    == [part: {"header", "payload"}, cmd: {"OPEN", "OKAY", "WRTE", "CLSE"}, s: Stream]
Message  == [cmd: {"OKAY", "WRTE", "CLSE"}, s: Stream, n: Nat] \cup {NoMsg}
DevState == [state: {"none", "open", "closed"}, sent: Nat, waits: BOOLEAN]

TypeOK ==
  /\ st \in [Stream -> StreamState]
  /\ streams \subseteq Stream /\ closed \in BOOLEAN /\ writeMu \in Stream \cup {NoStream}
  /\ pump \in [pc: {"read", "run", "ack", "reap", "dead"}, m: Message]
  /\ pump.pc \in {"run", "ack"} => pump.m # NoMsg
  /\ reaper \in [pc: {"none", "fail", "done"}, by: {"none", "pump", "user"}, err: Error,
                 left: SUBSET Stream]
  /\ conn \in {"up", "lost", "shut"}
  /\ toDevice \in Seq(Chunk) /\ toHost \in Seq(Message) /\ dev \in [Stream -> DevState]
  /\ pending.s # NoStream => pending \in Chunk
  /\ \A s \in Stream : Len(st[s].writes) <= BufferCap

(* A reader that sees the end of a stream it did not close itself has had   *)
(* everything the device wrote on it, in order: a CLSE never overtakes data *)
(* waiting for room in the buffer, and a teardown is reported as an error   *)
(* (onWrite, onClose, Read: transport.go).                                  *)
EofIsComplete ==
  \A s \in Stream :
    st[s].end = "EOF" /\ st[s].cl = "no" => st[s].got = [n \in 1..dev[s].sent |-> n]

(* The streams as pipes, seen from their users: the device's count and      *)
(* state, what Read returned, and whether Close was called.                 *)
Ends == INSTANCE Pipe WITH
  Pipes  <- Stream,
  Breaks <- Error \ {"none", "ErrStreamClosed"},
  sent   <- [s \in Stream |-> dev[s].sent],
  fin    <- [s \in Stream |-> dev[s].state = "closed"],
  got    <- [s \in Stream |-> st[s].got],
  end    <- [s \in Stream |-> st[s].end],
  hung   <- [s \in Stream |-> st[s].cl # "no"]

(* Each stream is a pipe to its reader, whatever the pump, the buffers, the *)
(* flow control, Close and teardown do in between: no piece is skipped,     *)
(* doubled, swapped or made up, and no end comes before the data in front   *)
(* of it (onWrite, onClose, fail, Read, Close: transport.go).               *)
StreamsArePipes == Ends!Spec

(* open hands out a stream only when the peer's id is known, so that Write  *)
(* and Close name it, although a refusal also wakes open (onReady, onClose, *)
(* open: transport.go).                                                     *)
OpenKnowsPeer == \A s \in Stream : st[s].op = "open" => st[s].remote

(* After a teardown nobody is left waiting: every open that registered has  *)
(* been woken or will fail to write, and every open stream reads its end,   *)
(* however open and teardown interleave (open, teardown: transport.go).     *)
NobodyOrphaned ==
  reaper.pc = "done" =>
    \A s \in Stream : /\ st[s].op \in {"payload", "select"} => st[s].ready
                      /\ st[s].op = "open" => st[s].closed

(* The pump is in onWrite, in front of a full buffer: one stream whose      *)
(* reader does not read holds up the whole connection.  Forgotten is the    *)
(* case no reader and no teardown ends: the open of that stream gave up     *)
(* (its context was done), so nobody has the stream to read, and it is no   *)
(* longer in the map that teardown walks.                                   *)
PumpWaits ==
  /\ pump.pc = "run" /\ pump.m.cmd = "WRTE"
  /\ Len(st[pump.m.s].writes) = BufferCap /\ ~st[pump.m.s].closed

Forgotten == PumpWaits /\ st[pump.m.s].op = "failed"

(* Every open that starts returns, with a stream, a refusal or an error,    *)
(* though other opens are cancelled and nobody need read ("blocks until the *)
(* peer answers"); the one thing that can keep it, while its own context    *)
(* lasts, is the pump for good in front of another stream's full buffer     *)
(* (open, onWrite: transport.go).                                           *)
OpensReturn ==
  \A s \in Stream : \/ (st[s].op = "header") ~> (st[s].op \in {"open", "failed"})
                    \/ <>[](PumpWaits /\ ~st[s].ctx)

(* Once the transport is torn down, whoever did it, the pump goroutine      *)
(* ends, also when it was waiting for a reader, unless it waits on a stream *)
(* a cancelled open has forgotten (readPump, open, teardown: transport.go). *)
PumpExits == closed ~> (pump.pc = "dead" \/ Forgotten)

(* "Every message on the transport consists of a 24-byte header followed by *)
(* an optional payload" (src/android/adb/README.md): between a header and   *)
(* its payload nothing else is on the wire.                                 *)
Framed ==
  \A i \in 1..(Len(toDevice) - 1) :
    toDevice[i].part = "header" /\ HasPayload(toDevice[i])
      => toDevice[i + 1] = Payload(toDevice[i].cmd, toDevice[i].s)
=============================================================================
