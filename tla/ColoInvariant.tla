--------------------------- MODULE ColoInvariant ---------------------------
(***************************************************************************)
(* The inductive invariant behind the safety of COLO checkpoints, for any  *)
(* number of checkpoints and faults.                                       *)
(*                                                                         *)
(* What makes it work is counting.  In a checkpoint the secondary sends    *)
(* three messages and the primary four.  As long as the control channel    *)
(* works, the messages that a side has received and those on their way to  *)
(* it are at most those that the other side has sent.  So a primary that   *)
(* has received its third message knows that the secondary has loaded.     *)
(***************************************************************************)
EXTENDS Colo

\* The places of the primary before and after a checkpoint, up to its first get.
Before == {"loop", "wait", "req", "stop", "check", "repl", "live", "getBmap"}
\* Within a checkpoint, before and after its number changes.
Saving == {"req", "stop", "check", "repl", "live", "getBmap", "putPBmap", "getHash",
           "write", "writing", "flush"}
Sending == {"putSize", "putValue", "putBuf", "getLoaded"}
\* The guest of the primary is stopped.
Stopped == {"check", "repl", "live", "getBmap", "putPBmap", "getHash", "write",
            "writing", "flush", "putSize", "putValue", "putBuf", "getLoaded",
            "barrier", "vmStart"}
PGone == {"sem", "exit", "done"}
\* The places of the secondary from the RAM sections to the device state.
Loading == {"getSize", "getValue", "getBuf", "device"}
\* Those in the RAM sections, and those where it has the size of the device state.
Ram == {"load", "ready", "serve", "tail"}
Sized == {"getValue", "getBuf", "device"}
SStopped == Loading \cup Ram \cup {"resume", "putBmap", "getPBmap", "putHash", "putLoaded"}
SGone == {"out", "sem", "done"}
\* Where a side that has nothing posted has no send without a completion.
Quiet == [P |-> PLabels \ (PGone \cup DOMAIN GetMsg),
          S |-> SLabels \ (SGone \cup DOMAIN GetMsg \cup Ram)]

One(b) == IF b THEN 1 ELSE 0

\* How many messages each side has received and sent in all its checkpoints.  A
\* side that has left its loop sends no more; k tells whether the secondary left
\* in the middle of a checkpoint.
GotP ==
  3 * epoch + One(pc["P"] \in {"putPBmap", "getHash"})
            + 2 * One(pc["P"] \in {"write", "writing", "flush"})
            - One(pc["P"] \in Sending \cup PGone)
SentP ==
  4 * epoch + One(posted["P"]) + One(pc["P"] \in {"getHash", "write", "writing", "flush"})
            - 3 * One(pc["P"] = "putSize") - 2 * One(pc["P"] = "putValue")
            - One(pc["P"] = "putBuf")
GotS(k) ==
  4 * loaded + One(pc["S"] \in Ram \cup {"putHash", "getSize"})
             + 2 * One(pc["S"] = "getValue") + 3 * One(pc["S"] = "getBuf")
             + 4 * One(pc["S"] = "device") + k * One(pc["S"] \in SGone)
SentS(k) ==
  3 * loaded + One(posted["S"]) + One(pc["S"] \in {"getPBmap", "putHash"})
             + 2 * One(pc["S"] \in Loading \cup Ram)
             - One(pc["S"] = "putLoaded") + 2 * k * One(pc["S"] \in SGone)

InStep(k) ==
  /\ GotP + One(sending["S"]) + One(rbuf["P"] # NoMsg) <= SentS(k)
  /\ GotS(k) + One(sending["P"]) + One(rbuf["S"] # NoMsg) <= SentP

\* The peer of the primary is gone, and so few completions are left that it gets
\* stuck before it could take one for that of the message LOADED.
Doomed ==
  /\ qp_error["P"]
  /\ pc["P"] \notin {"barrier", "vmStart", "release"}
  /\ \/ Len(cq["P"]) <= One(posted["P"])
     \/ pc["P"] \in Before \cup PGone /\ Len(cq["P"]) <= 1

\* One end of the control channel.  While it works, completions that wait or will
\* come are those of the posted send and of the received message.
Balanced(x) ==
  Len(cq[x]) = One(posted[x]) + One(rbuf[x] # NoMsg) - One(sending[x]) - One(unacked[x])
Channel(x) ==
  /\ sending[x] => posted[x] /\ ~unacked[x]
  /\ qp_error[x] => ~sending[x] /\ ~unacked[x] /\ ~alive[Peer(x)]
                    /\ Len(cq[x]) <= One(posted[x]) + 1
  /\ ~qp_error[x] => Balanced(x) /\ \A i \in 1 .. Len(cq[x]) : cq[x][i] = TRUE
  /\ (pc[x] \in Quiet[x] /\ ~posted[x]) => ~unacked[x]

Protocol ==
  alive["P"] => /\ Channel("P") /\ Channel("S")
                /\ InStep(0) \/ InStep(1) \/ Doomed

\* A secondary that has left its loop while its guest runs, because of a failover,
\* has sent the messages of the loaded checkpoints only.
LeftRunning ==
  (alive["P"] /\ alive["S"] /\ running["S"] /\ ~taken_over /\ pc["S"] \in SGone)
    => GotP + One(sending["S"]) + One(rbuf["P"] # NoMsg) <= 3 * loaded

\* What is posted, what the send area holds then, and what it still holds where an
\* error would leave it as it is.
Places ==
  /\ \A x \in Side : posted[x] => pc[x] \in DOMAIN PutMsg /\ rdma_buffer[x] = PutMsg[pc[x]]
  /\ pc["P"] = "getLoaded" => rdma_buffer["P"] = "BUFFER"
  /\ pc["S"] \in Ram \cup {"getSize"} => rdma_buffer["S"] = "HASH"

\* Which checkpoint the memory of a secondary that is alive holds: the one it has
\* loaded, or all of the next one once the primary has flushed the stream.
Memory ==
  /\ loaded <= epoch
  /\ (alive["S"] /\ pc["P"] = "flush") => ram = epoch + 1
  /\ (alive["S"] /\ loaded < epoch) => ram = epoch /\ epoch = loaded + 1
  /\ alive["S"] /\ (pc["S"] \in Sized \/ rbuf["S"] = "SIZE") => loaded < epoch
  /\ pc["S"] \in Sized => rbuf["S"] # "SIZE"
  /\ pc["S"] = "putLoaded" => ram = dev /\ dev # Torn
  /\ running["S"] => alive["S"] /\ pc["S"] \notin SStopped
  /\ taken_over => pc["S"] = "done"
  /\ RunsConsistent

\* The plug: its last epoch is loaded, and its packets are of checkpoints so far.
Output ==
  /\ plug.cur + plug.last <= Len(plug.queue)
  /\ \A i \in 1 .. plug.last : plug.queue[i] <= loaded
  /\ \A i \in 1 .. Len(plug.queue) : plug.queue[i] \in 1 .. epoch + 1
  /\ pc["P"] \in Sending \cup {"barrier"} =>
       \A i \in 1 .. Len(plug.queue) : plug.queue[i] <= epoch
  /\ pc["P"] = "barrier" => loaded = epoch
  /\ running["P"] => pc["P"] \notin Stopped
  /\ OutputCommit

\* What the type invariant needs.
Bounds ==
  /\ pc["P"] \in Saving => epoch < MaxEpoch
  /\ pc["P"] \notin PGone => req <= epoch + One(pc["P"] \in Saving)
  /\ \A x \in Side : failover_state[x] # "COMPLETED" => sem[x] = 0

\* The inductive invariant: the two loops of colo.c are at matching places of the
\* same checkpoint, as far as the messages between them tell, and what each holds
\* follows from its place.
IInv == TypeOK /\ Bounds /\ Places /\ Protocol /\ LeftRunning /\ Memory /\ Output
=============================================================================
