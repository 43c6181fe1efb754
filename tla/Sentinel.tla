------------------------------ MODULE Sentinel ------------------------------
(***************************************************************************)
(* The sentinel message bus of libcu: one sentinelMap shared by the        *)
(* senders (the threads of a kernel for a device map, the file-utility     *)
(* processes for the host map) and the one service thread of the server    *)
(* process.  A sender takes an id from SetId, fills the command at that    *)
(* id's place in the map, publishes it by writing Status 2 and, when the   *)
(* message asks to wait, spins until the service thread has stored 4,      *)
(* copies the command back and frees it with Status 0.                     *)
(*                                                                         *)
(* Ids count commands: one unit stands for SENTINEL_MSGSIZE bytes.  A      *)
(* message is abstracted to its sender, its number, its Wait flag, what    *)
(* its processing may run into (kind) and whether an executor has filled   *)
(* in its result (done).  The Magic field is the test data[k] # NoMsg.     *)
(***************************************************************************)
EXTENDS Naturals

CONSTANTS
  Senders,     (* threads of a kernel, or client processes                 *)
  Slots,       (* commands in the map: SENTINEL_MSGCOUNT                   *)
  Ids,         (* commands counted by SetId and GetId before a long wraps  *)
  MaxSends,    (* bound on the messages of one sender                      *)
  Waits,       (* the Wait flags senders use                               *)
  Kinds,       (* the kinds of message they send                           *)
  DeviceBus,   (* TRUE: device map and thread, FALSE: host map and clients *)
  Serialized,  (* TRUE: callers never let two sends overlap                *)
  NoMsg        (* the content of a command nobody has filled               *)

(* What a message may run into: nothing; a Prepare that finds no room; a   *)
(* hostPrepare that finds none; it is STDLIB_EXIT.  The thread of the host *)
(* map calls no hostPrepare, and the file utilities send no exit.          *)
AllKinds == {"call", "toolong", "unprepared", "exit"}

ASSUME SentinelAssumption ==
  /\ Slots \in Nat \ {0}
  /\ Ids \in Nat \ {0}
  /\ MaxSends \in Nat
  /\ Waits \subseteq BOOLEAN
  /\ Kinds \subseteq AllKinds
  /\ DeviceBus \in BOOLEAN
  /\ ~DeviceBus => Kinds \subseteq {"call", "toolong"}
  /\ Serialized \in BOOLEAN

VARIABLES
  setId,    (* sentinelMap.SetId                                           *)
  getId,    (* sentinelMap.GetId                                           *)
  status,   (* sentinelCommand.Status of every command in the map          *)
  data,     (* sentinelCommand.Data of every command in the map            *)
  pc,       (* where each sender is in its send                            *)
  at,       (* cmd of each sender, as the index of its place in the map    *)
  msg,      (* the sentinelMessage each sender holds                       *)
  sends,    (* messages each sender has started to send                    *)
  server,   (* progress of sentinelServerInitialize and ...Shutdown        *)
  service,  (* where the service thread is in its loop                     *)
  reply,    (* the value of msg->Wait the service thread has just read     *)
  astray,   (* history: it has gone on with a command it did not claim     *)
  ran       (* history: how often the host has run each message            *)

map     == <<setId, getId, status, data>>
senders == <<pc, at, msg, sends>>
host    == <<server, service, reply, astray>>
vars    == <<map, senders, host, ran>>

Places  == 0 .. Slots - 1
Numbers == 1 .. MaxSends

Message ==
  [from : Senders, num : Numbers, wait : BOOLEAN, kind : AllKinds, done : BOOLEAN]

(* Mutants are faulty variants of the definition they precede; the runs'    *)
(* properties are tested on them.                                          *)

PlaceOf(id) == id % Slots
Bump(id)    == (id + 1) % Ids

(* The command the service thread works on.  Only that thread moves GetId. *)
Cur == PlaceOf(getId)

(* _thread...Handle is set; the map has not been unmapped or freed.        *)
HandleSet == server = "up"
Mapped    == server # "down"

(* The server process is alive. *)
HostAlive == service \notin {"exited", "faulted"}

Quiet(s) == pc[s] \in {"idle", "gone"}

-----------------------------------------------------------------------------
Init ==
  /\ setId = 0 /\ getId = 0
  /\ status = [k \in Places |-> 0]
  /\ data = [k \in Places |-> NoMsg]
  /\ pc = [s \in Senders |-> "idle"]
  /\ at = [s \in Senders |-> 0]
  /\ msg = [s \in Senders |-> NoMsg]
  /\ sends = [s \in Senders |-> 0]
  /\ server = "mapped" /\ service = "none" /\ reply = FALSE /\ astray = FALSE
  /\ ran = [s \in Senders |-> [n \in Numbers |-> 0]]

-----------------------------------------------------------------------------
(* Senders: sentinelDeviceSend and sentinelClientSend.                     *)

Goto(s, label) == pc' = [pc EXCEPT ![s] = label]

(* A kernel is launched after sentinelServerInitialize has returned; a     *)
(* client opens the mapping by name and may send as soon as it exists.     *)
CanSend(s) ==
  /\ pc[s] = "idle"
  /\ sends[s] < MaxSends
  /\ DeviceBus => HandleSet /\ HostAlive
  /\ Serialized => \A t \in Senders : Quiet(t)

(* Mutant: Status 2 is written with the header, before the command is filled. *)
ReserveAndPublish(s, w, k) ==
  /\ CanSend(s)
  /\ k = "exit" => ~w
  /\ sends' = [sends EXCEPT ![s] = @ + 1]
  /\ msg' = [msg EXCEPT ![s] = [from |-> s, num |-> sends[s] + 1,
                                wait |-> w, kind |-> k, done |-> FALSE]]
  /\ at' = [at EXCEPT ![s] = PlaceOf(setId)]
  /\ setId' = Bump(setId)
  /\ status' = [status EXCEPT ![PlaceOf(setId)] = 2]
  /\ Goto(s, "fill")
  /\ UNCHANGED <<getId, data, host, ran>>

(* Mutant: SetId is read and written back, not added to atomically: the    *)
(* update of a sender that overlaps another is lost.                       *)
ReserveLosesUpdate(s, w, k) ==
  /\ CanSend(s)
  /\ k = "exit" => ~w
  /\ sends' = [sends EXCEPT ![s] = @ + 1]
  /\ msg' = [msg EXCEPT ![s] = [from |-> s, num |-> sends[s] + 1,
                                wait |-> w, kind |-> k, done |-> FALSE]]
  /\ at' = [at EXCEPT ![s] = PlaceOf(setId)]
  /\ setId' = IF \A t \in Senders : Quiet(t) THEN setId ELSE Bump(setId)
  /\ Goto(s, "fill")
  /\ UNCHANGED <<getId, status, data, host, ran>>

(* Take an id: atomicAdd, or InterlockedAdd, on SetId. *)
Reserve(s, w, k) ==
  /\ CanSend(s)
  /\ k = "exit" => ~w
  /\ sends' = [sends EXCEPT ![s] = @ + 1]
  /\ msg' = [msg EXCEPT ![s] = [from |-> s, num |-> sends[s] + 1,
                                wait |-> w, kind |-> k, done |-> FALSE]]
  /\ at' = [at EXCEPT ![s] = PlaceOf(setId)]
  /\ setId' = Bump(setId)
  /\ Goto(s, "fill")
  /\ UNCHANGED <<getId, status, data, host, ran>>

(* Magic, Length, Prepare and the memcpy into the command. *)
Fill(s) ==
  /\ pc[s] = "fill"
  /\ msg[s].kind # "toolong"
  /\ data' = [data EXCEPT ![at[s]] = msg[s]]
  /\ Goto(s, "publish")
  /\ UNCHANGED <<setId, getId, status, at, msg, sends, host, ran>>

(* Prepare finds no room: the trap of panic ends the whole kernel, exit(0) *)
(* ends the client process.  The id has been taken.                        *)
TooLong(s) ==
  /\ pc[s] = "fill"
  /\ msg[s].kind = "toolong"
  /\ pc' = [t \in Senders |-> IF DeviceBus \/ t = s THEN "gone" ELSE pc[t]]
  /\ UNCHANGED <<map, at, msg, sends, host, ran>>

Publish(s) ==
  /\ pc[s] = "publish"
  /\ status' = [status EXCEPT ![at[s]] = 2]
  /\ Goto(s, IF msg[s].wait THEN "wait" ELSE "idle")
  /\ UNCHANGED <<setId, getId, data, at, msg, sends, host, ran>>

(* The spin ends: a device thread reads 4, a client exchanges 4 for 5. *)
SeeReply(s) ==
  /\ pc[s] = "wait"
  /\ status[at[s]] = 4
  /\ status' = IF DeviceBus THEN status ELSE [status EXCEPT ![at[s]] = 5]
  /\ Goto(s, "copy")
  /\ UNCHANGED <<setId, getId, data, at, msg, sends, host, ran>>

CopyBack(s) ==
  /\ pc[s] = "copy"
  /\ msg' = [msg EXCEPT ![s] = data[at[s]]]
  /\ Goto(s, "release")
  /\ UNCHANGED <<map, at, sends, host, ran>>

(* Mutant: the command is not freed. *)
ReleaseForgotten(s) ==
  /\ pc[s] = "release"
  /\ Goto(s, "idle")
  /\ UNCHANGED <<map, at, msg, sends, host, ran>>

Release(s) ==
  /\ pc[s] = "release"
  /\ status' = [status EXCEPT ![at[s]] = 0]
  /\ Goto(s, "idle")
  /\ UNCHANGED <<setId, getId, data, at, msg, sends, host, ran>>

Send(s) ==
  \/ \E w \in Waits, k \in Kinds : Reserve(s, w, k)
  \/ Fill(s)
  \/ TooLong(s)
  \/ Publish(s)
  \/ SeeReply(s)
  \/ CopyBack(s)
  \/ Release(s)

-----------------------------------------------------------------------------
(* The server: sentinelServerInitialize and sentinelServerShutdown.        *)

(* _beginthreadex starts the thread ... *)
StartThread ==
  /\ server = "mapped"
  /\ server' = "spawned"
  /\ service' = "poll"
  /\ UNCHANGED <<map, senders, reply, astray, ran>>

(* ... and only its return value is stored in the handle the thread reads. *)
StoreHandle ==
  /\ server = "spawned" /\ HostAlive
  /\ server' = "up"
  /\ UNCHANGED <<map, senders, service, reply, astray, ran>>

(* Shutdown clears the handle and does not join the thread.  A program     *)
(* shuts its device bus down after its kernels have finished; the host bus *)
(* knows nothing of its clients.                                           *)
CloseHandle ==
  /\ server = "up" /\ HostAlive
  /\ DeviceBus => \A s \in Senders : Quiet(s)
  /\ server' = "closed"
  /\ UNCHANGED <<map, senders, service, reply, astray, ran>>

(* UnmapViewOfFile, or cudaFreeHost. *)
Unmap ==
  /\ server = "closed" /\ HostAlive
  /\ server' = "down"
  /\ UNCHANGED <<map, senders, service, reply, astray, ran>>

Server == StartThread \/ StoreHandle \/ CloseHandle \/ Unmap

-----------------------------------------------------------------------------
(* The service thread: sentinelHostThread and sentinelDeviceThread.        *)

(* The condition of the spin reads the handle first: without one, the spin *)
(* is over.                                                                *)
Poll ==
  /\ service = "poll"
  /\ service' = IF HandleSet THEN "try" ELSE "passed"
  /\ UNCHANGED <<map, senders, server, reply, astray, ran>>

(* InterlockedCompareExchange(status, 3, 2). *)
Claim ==
  /\ service = "try" /\ Mapped
  /\ status[Cur] = 2
  /\ status' = [status EXCEPT ![Cur] = 3]
  /\ service' = "claimed"
  /\ UNCHANGED <<setId, getId, data, senders, server, reply, astray, ran>>

ClaimFails ==
  /\ service = "try" /\ Mapped
  /\ status[Cur] # 2
  /\ service' = "poll"
  /\ UNCHANGED <<map, senders, server, reply, astray, ran>>

(* Mutant: no executor is called. *)
RecheckSkipsExecutors ==
  /\ service = "claimed"
  /\ service' = IF HandleSet THEN "answer" ELSE "stopped"
  /\ UNCHANGED <<map, senders, server, reply, astray, ran>>

(* The handle is read once more behind the spin ... *)
Recheck ==
  /\ service = "claimed"
  /\ service' = IF HandleSet THEN "run" ELSE "stopped"
  /\ UNCHANGED <<map, senders, server, reply, astray, ran>>

(* ... also where the spin has ended for want of a handle.  If it has been *)
(* stored in between, the thread takes the command for one it has claimed. *)
RecheckUnclaimed ==
  /\ service = "passed"
  /\ service' = IF HandleSet THEN "run" ELSE "stopped"
  /\ astray' = (astray \/ HandleSet)
  /\ UNCHANGED <<map, senders, server, reply, ran>>

(* "Bad Sentinel Magic": nobody has ever filled the command, exit(1). *)
BadMagic ==
  /\ service = "run" /\ Mapped
  /\ data[Cur] = NoMsg
  /\ service' = "exited"
  /\ pc' = IF DeviceBus THEN [s \in Senders |-> "gone"] ELSE pc
  /\ UNCHANGED <<map, at, msg, sends, server, reply, astray, ran>>

CountRun ==
  ran' = [ran EXCEPT ![data[Cur].from][data[Cur].num] = @ + 1]

(* The executor list handles the command in place: its result lands in the *)
(* command itself.                                                         *)
Run ==
  /\ service = "run" /\ Mapped
  /\ data[Cur] # NoMsg /\ data[Cur].kind \notin {"unprepared", "exit"}
  /\ data' = [data EXCEPT ![Cur].done = TRUE]
  /\ CountRun
  /\ service' = "answer"
  /\ UNCHANGED <<setId, getId, status, senders, server, reply, astray>>

(* STDLIB_EXIT, or a hostPrepare that finds no room: exit ends the server  *)
(* process, and with it the context its kernels run in.                    *)
RunExits ==
  /\ service = "run" /\ Mapped
  /\ data[Cur] # NoMsg /\ data[Cur].kind \in {"unprepared", "exit"}
  /\ CountRun
  /\ service' = "exited"
  /\ pc' = IF DeviceBus THEN [s \in Senders |-> "gone"] ELSE pc
  /\ UNCHANGED <<map, at, msg, sends, server, reply, astray>>

(* *status = msg->Wait ? 4 : 0 reads the shared command, then writes. *)
ReadWait ==
  /\ service = "answer" /\ Mapped
  /\ reply' = data[Cur].wait
  /\ service' = "store"
  /\ UNCHANGED <<map, senders, server, astray, ran>>

(* Mutants: 4 and 0 are swapped; an unanswered command is left published.  *)
StoreStatusSwapped ==
  /\ service = "store" /\ Mapped
  /\ status' = [status EXCEPT ![Cur] = IF reply THEN 0 ELSE 4]
  /\ service' = "advance"
  /\ UNCHANGED <<setId, getId, data, senders, server, reply, astray, ran>>

StoreStatusRepublishes ==
  /\ service = "store" /\ Mapped
  /\ status' = [status EXCEPT ![Cur] = IF reply THEN 4 ELSE 2]
  /\ service' = "advance"
  /\ UNCHANGED <<setId, getId, data, senders, server, reply, astray, ran>>

StoreStatus ==
  /\ service = "store" /\ Mapped
  /\ status' = [status EXCEPT ![Cur] = IF reply THEN 4 ELSE 0]
  /\ service' = "advance"
  /\ UNCHANGED <<setId, getId, data, senders, server, reply, astray, ran>>

(* Mutant: GetId is moved only behind a message that is waited for. *)
AdvanceIfAnswered ==
  /\ service = "advance" /\ Mapped
  /\ getId' = IF reply THEN Bump(getId) ELSE getId
  /\ service' = "poll"
  /\ UNCHANGED <<setId, status, data, senders, server, reply, astray, ran>>

Advance ==
  /\ service = "advance" /\ Mapped
  /\ getId' = Bump(getId)
  /\ service' = "poll"
  /\ UNCHANGED <<setId, status, data, senders, server, reply, astray, ran>>

(* The thread touches the map after it was unmapped. *)
Fault ==
  /\ service \in {"try", "run", "answer", "store", "advance"} /\ ~Mapped
  /\ service' = "faulted"
  /\ UNCHANGED <<map, senders, server, reply, astray, ran>>

Service ==
  \/ Poll \/ Claim \/ ClaimFails \/ Recheck \/ RecheckUnclaimed
  \/ BadMagic \/ Run \/ RunExits
  \/ ReadWait \/ StoreStatus \/ Advance \/ Fault

-----------------------------------------------------------------------------
Next == (\E s \in Senders : Send(s)) \/ Server \/ Service

Spec == Init /\ [][Next]_vars

(* The service thread and every sender inside a send are running threads;  *)
(* nothing obliges a sender to start a send or the program to shut down.   *)
Progress(s) ==
  Fill(s) \/ TooLong(s) \/ Publish(s) \/ SeeReply(s) \/ CopyBack(s) \/ Release(s)

FairSpec ==
  /\ Spec
  /\ \A s \in Senders : WF_vars(Progress(s))
  /\ WF_vars(Service)
  /\ WF_vars(StartThread \/ StoreHandle)

-----------------------------------------------------------------------------
TypeOK ==
  /\ setId \in 0 .. Ids - 1 /\ getId \in 0 .. Ids - 1
  /\ status \in [Places -> 0 .. 5]
  /\ data \in [Places -> Message \cup {NoMsg}]
  /\ pc \in [Senders -> {"idle", "fill", "publish", "wait", "copy", "release", "gone"}]
  /\ at \in [Senders -> Places]
  /\ msg \in [Senders -> Message \cup {NoMsg}]
  /\ sends \in [Senders -> 0 .. MaxSends]
  /\ server \in {"mapped", "spawned", "up", "closed", "down"}
  /\ service \in {"none", "poll", "try", "claimed", "passed", "run", "answer",
                  "store", "advance", "stopped", "exited", "faulted"}
  /\ reply \in BOOLEAN /\ astray \in BOOLEAN
  /\ ran \in [Senders -> [Numbers -> Nat]]

(* The service thread goes astray when its handle is stored between its two*)
(* looks at it (sentinel.cpp:76, :77, :158): it serves a command it has not*)
(* claimed.  Up to then the following holds; see MagicIsGood for the rest. *)

(* A waiting send hands its caller the executed form of the very message   *)
(* the caller sent: never a reply to another sender's message, to an       *)
(* earlier message of its own, or a command nobody has executed.           *)
ReplyIsOwn ==
  ~astray => \A s \in Senders : pc[s] = "release" =>
    /\ msg[s].from = s /\ msg[s].num = sends[s] /\ msg[s].done
    /\ ran[s][sends[s]] = 1

(* The host runs no message twice, whatever the timing of the memcpy, the  *)
(* store of Status and the service thread's claim.                         *)
RunsAtMostOnce == ~astray => \A s \in Senders, n \in Numbers : ran[s][n] <= 1

(* The service thread never executes a command that its sender has not     *)
(* published: the start-up race is the only way to "Bad Sentinel Magic".   *)
RunsOnlyPublished ==
  ~astray /\ service \in {"claimed", "run"} =>
    /\ data[Cur] # NoMsg
    /\ LET s == data[Cur].from
       IN sends[s] = data[Cur].num => pc[s] \notin {"fill", "publish"}

(* A command's Status goes round 0 -> 2 -> 3 -> 4 (-> 5) -> 0, or back to  *)
(* 0 from 3 when nobody waits: a publish never lands on a command that is  *)
(* still being served, and no answer lands on a newly published one.       *)
StatusProtocol ==
  [][~astray => \A k \in Places : status'[k] # status[k] =>
       <<status[k], status'[k]>> \in
         {<<0, 2>>, <<2, 3>>, <<3, 0>>, <<3, 4>>, <<4, 5>>, <<4, 0>>, <<5, 0>>}]_status

(* The service thread is in its loop, or about to enter it. *)
Serving == service \notin {"stopped", "exited", "faulted"}

(* A send that waits returns, unless the service thread is no more. *)
EveryCallReturns ==
  \A s \in Senders : (pc[s] = "wait") ~> (pc[s] # "wait" \/ ~Serving)

(* Every message, waited for or not, reaches the host once it is sent,     *)
(* unless the service thread is no more.                                   *)
EveryMessageRuns ==
  \A s \in Senders, n \in Numbers : (sends[s] = n) ~> (ran[s][n] = 1 \/ ~Serving)

-----------------------------------------------------------------------------
(* What callers take a waiting send for: a remote procedure call.          *)

Phase(s) ==
  IF Quiet(s) THEN pc[s]
  ELSE CASE ran[s][sends[s]] = 0 -> "called"
         [] ran[s][sends[s]] = 1 -> "executed"
         [] OTHER -> "repeated"

RC == INSTANCE RemoteCall WITH
        Callers <- Senders, phase <- [s \in Senders |-> Phase(s)], broken <- astray

(* Serialized waiting sends implement remote calls executed exactly once,  *)
(* until the service thread goes astray.                                   *)
ImplementsRemoteCall == RC!Spec

-----------------------------------------------------------------------------
(* Claims of the code about the bus that fail; see the README.             *)

(* stdiocu.cu: when a waiting call returns, the host has executed it.      *)
CloseExecuted ==
  \A s \in Senders : pc[s] = "release" => ran[s][sends[s]] >= 1

(* sentinel.cpp:42, :78: what the service thread finds behind the spin is  *)
(* a command that a sender has filled.                                     *)
MagicIsGood == service = "run" => data[Cur] # NoMsg
=============================================================================
