--------------------------- MODULE SentinelProofs ---------------------------
(***************************************************************************)
(* Proofs about the sentinel bus used in two ways.  First the way the      *)
(* library's samples use it: one sender at a time, every message waited    *)
(* for, in a map of any size that is lapped any number of times.  Then     *)
(* senders that overlap and need not wait, in a map with a command for     *)
(* every message.                                                          *)
(***************************************************************************)
EXTENDS Sentinel, FiniteSetTheorems, TLAPS

SerialWaiting == Serialized /\ Waits = {TRUE}

(* The host process of a device bus has exited: its kernels are gone. *)
Ended == DeviceBus /\ service = "exited"

(* Sender s waits for, or collects, the answer to its published command. *)
Holds(s) == pc[s] \in {"wait", "copy", "release"}

(* m is the message sender s is sending. *)
IsCurrent(m, s) ==
  /\ m \in Message
  /\ m.from = s /\ m.num = sends[s] /\ m.wait /\ m.kind # "exit"

RanCurrent(s) == ran[s][sends[s]]

-----------------------------------------------------------------------------
(* The inductive invariant, by parts.                                      *)

OneSender == \A s, t \in Senders : ~Quiet(s) /\ ~Quiet(t) => s = t

(* A command in use belongs to the one sender, unless all are gone. *)
CommandsOwned ==
  \A k \in Places : status[k] # 0 =>
    Ended \/ \E s \in Senders : Holds(s) /\ at[s] = k

(* The service thread works for a sender that waits. *)
ServiceOwned ==
  service \in {"claimed", "run", "answer", "store"} =>
    \E s \in Senders : pc[s] = "wait" /\ at[s] = Cur /\ status[Cur] = 3

(* Where the message of an active sender is, and whether it has been run. *)
SenderState ==
  \A s \in Senders :
    /\ ~Quiet(s) => sends[s] \in Numbers /\ IsCurrent(msg[s], s)
    /\ pc[s] \in {"fill", "publish"} => ~msg[s].done /\ RanCurrent(s) = 0
    /\ pc[s] = "publish" => data[at[s]] = msg[s]
    /\ pc[s] \in {"wait", "copy"} => IsCurrent(data[at[s]], s)
    /\ pc[s] = "wait" =>
         /\ status[at[s]] \in {2, 3, 4}
         /\ status[at[s]] = 2 => RanCurrent(s) = 0
         /\ status[at[s]] = 3 =>
              /\ service \in {"claimed", "run"} => RanCurrent(s) = 0
              /\ service \in {"answer", "store"} =>
                   RanCurrent(s) = 1 /\ data[at[s]].done
              /\ service \notin {"poll", "try", "advance", "none"}
         /\ status[at[s]] = 4 => RanCurrent(s) = 1 /\ data[at[s]].done
    /\ pc[s] = "copy" => RanCurrent(s) = 1 /\ data[at[s]].done /\ status[at[s]] \in {4, 5}
    /\ pc[s] = "release" => RanCurrent(s) = 1 /\ msg[s].done /\ status[at[s]] \in {4, 5}

RanBound ==
  \A s \in Senders, n \in Numbers :
    ran[s][n] <= 1 /\ (sends[s] < n => ran[s][n] = 0)

Orderly ==
  /\ TypeOK
  /\ OneSender /\ CommandsOwned /\ ServiceOwned /\ SenderState /\ RanBound
  /\ service = "store" => reply
  /\ server = "mapped" => service = "none"
  /\ Ended => \A s \in Senders : pc[s] = "gone"

(* ... which the service thread leaves only by going astray.               *)
IInv == ~astray => Orderly

-----------------------------------------------------------------------------
(* Ids stay in range and fall on a command of the map. *)
LEMMA IdsInRange ==
  ASSUME NEW id \in 0 .. Ids - 1
  PROVE  Bump(id) \in 0 .. Ids - 1 /\ PlaceOf(id) \in Places
BY SentinelAssumption DEF Bump, PlaceOf, Places

(* No message has been sent.                                               *)
LEMMA InitInv == Init => Orderly
<1> SUFFICES ASSUME Init PROVE Orderly
  OBVIOUS
<1>1. TypeOK
  <2>1. ran \in [Senders -> [Numbers -> Nat]]
    BY DEF Init
  <2>2. 0 \in Places /\ 0 \in 0 .. Ids - 1 /\ 0 \in 0 .. MaxSends
    BY SentinelAssumption DEF Places
  <2>3. reply \in BOOLEAN /\ astray \in BOOLEAN
    BY DEF Init
  <2> QED
    BY <2>1, <2>2, <2>3 DEF Init, TypeOK
<1>2. OneSender /\ CommandsOwned /\ ServiceOwned /\ RanBound
  BY DEF Init, OneSender, CommandsOwned, ServiceOwned, RanBound, Quiet
<1>3. SenderState
  BY DEF Init, SenderState, Quiet
<1>4. (service = "store" => reply) /\ (server = "mapped" => service = "none") /\ ~Ended
  BY DEF Init, Ended
<1> QED
  BY <1>1, <1>2, <1>3, <1>4 DEF Orderly

-----------------------------------------------------------------------------
(* One lemma per action: it preserves the invariant. *)

(* A sender takes the next id and its command.                             *)
LEMMA ReserveInv ==
  ASSUME SerialWaiting, Orderly, NEW s \in Senders, NEW w \in Waits, NEW k \in Kinds,
         Reserve(s, w, k)
  PROVE  Orderly'
<1> USE DEF Orderly
<1>1. /\ pc[s] = "idle" /\ \A t \in Senders : Quiet(t)
      /\ w = TRUE /\ k # "exit" /\ k \in AllKinds
      /\ ~Ended
  <2>1. pc[s] = "idle" /\ \A t \in Senders : Quiet(t)
    BY DEF Reserve, CanSend, SerialWaiting
  <2>2. w = TRUE
    BY DEF SerialWaiting
  <2>3. k # "exit" /\ k \in AllKinds
    BY <2>2, SentinelAssumption DEF Reserve
  <2>4. ~Ended
    BY <2>1
  <2> QED
    BY <2>1, <2>2, <2>3, <2>4
<1>2. sends[s] \in Nat /\ sends[s] + 1 \in Numbers /\ sends[s] + 1 \in 0 .. MaxSends
  BY SentinelAssumption DEF Reserve, CanSend, TypeOK, Numbers
<1>3. PlaceOf(setId) \in Places /\ Bump(setId) \in 0 .. Ids - 1
  BY IdsInRange DEF TypeOK
<1>4. /\ msg'[s] \in Message /\ msg'[s].from = s /\ msg'[s].num = sends[s] + 1
      /\ msg'[s].wait /\ msg'[s].kind # "exit" /\ ~msg'[s].done
      /\ \A t \in Senders \ {s} : msg'[t] = msg[t] /\ sends'[t] = sends[t] /\ pc'[t] = pc[t]
      /\ sends'[s] = sends[s] + 1 /\ pc'[s] = "fill"
  BY <1>1, <1>2 DEF Reserve, TypeOK, Message, Goto
<1>5. TypeOK'
  BY <1>1, <1>2, <1>3, <1>4 DEF Reserve, TypeOK, Goto, map, host
<1>6. OneSender' /\ CommandsOwned' /\ ServiceOwned'
  BY <1>1, <1>4 DEF Reserve, OneSender, CommandsOwned, ServiceOwned, Quiet, Holds, Ended, host, Cur
<1>7. SenderState' /\ RanBound'
  <2>1. \A t \in Senders \ {s} : Quiet(t)'
    BY <1>1, <1>4 DEF Quiet
  <2>2. IsCurrent(msg[s], s)'
    BY <1>4 DEF IsCurrent
  <2>3. RanCurrent(s)' = 0
    BY <1>2, <1>4 DEF Reserve, RanCurrent, RanBound
  <2>4. SenderState'
    BY <1>2, <1>4, <2>1, <2>2, <2>3 DEF SenderState, Quiet
  <2>5. RanBound'
    BY <1>2, <1>4 DEF Reserve, RanBound, TypeOK, Numbers
  <2> QED
    BY <2>4, <2>5
<1>8. (service = "store" => reply)' /\ (server = "mapped" => service = "none")' /\ ~Ended'
  BY <1>1 DEF Reserve, Ended, host
<1> QED
  BY <1>5, <1>6, <1>7, <1>8

(* What is known of the sender s that takes a step inside its send. *)
LEMMA Alone ==
  ASSUME Orderly, NEW s \in Senders, ~Quiet(s)
  PROVE  /\ \A t \in Senders \ {s} : Quiet(t)
         /\ ~Ended
         /\ sends[s] \in Numbers /\ IsCurrent(msg[s], s)
         /\ at[s] \in Places
         /\ \A k \in Places : status[k] # 0 => Holds(s) /\ at[s] = k
BY DEF Orderly, OneSender, SenderState, CommandsOwned, Quiet, Holds, TypeOK

(* The message is copied into the command.                                 *)
LEMMA FillInv ==
  ASSUME SerialWaiting, Orderly, NEW s \in Senders, Fill(s)
  PROVE  Orderly'
<1> USE DEF Orderly
<1>1. ~Quiet(s) /\ ~Holds(s)
  BY DEF Fill, Quiet, Holds
<1>2. TypeOK'
  BY <1>1, Alone DEF Fill, TypeOK, Goto, IsCurrent, host
<1>3. OneSender' /\ CommandsOwned' /\ ServiceOwned'
  BY <1>1, Alone DEF Fill, Goto, OneSender, CommandsOwned, ServiceOwned, Quiet, Holds,
     Ended, host, Cur, TypeOK
<1>4. SenderState' /\ RanBound'
  BY <1>1, Alone DEF Fill, Goto, SenderState, RanBound, RanCurrent, IsCurrent, Quiet, host, TypeOK
<1>5. (service = "store" => reply)' /\ (server = "mapped" => service = "none")' /\ ~Ended'
  BY <1>1, Alone DEF Fill, Ended, host
<1> QED
  BY <1>2, <1>3, <1>4, <1>5

(* The message does not fit, the call fails.                               *)
LEMMA TooLongInv ==
  ASSUME SerialWaiting, Orderly, NEW s \in Senders, TooLong(s)
  PROVE  Orderly'
<1> USE DEF Orderly
<1>1. ~Quiet(s) /\ ~Holds(s)
  BY DEF TooLong, Quiet, Holds
<1>2. /\ \A t \in Senders : pc'[t] = IF DeviceBus \/ t = s THEN "gone" ELSE pc[t]
      /\ \A t \in Senders : Quiet(t)' /\ ~Holds(t)
      /\ UNCHANGED <<map, at, msg, sends, host, ran>>
  BY <1>1, Alone DEF TooLong, Quiet, Holds
<1>3. TypeOK'
  BY <1>2 DEF TooLong, TypeOK, host, map
<1>4. OneSender' /\ CommandsOwned' /\ ServiceOwned'
  BY <1>1, <1>2, Alone DEF OneSender, CommandsOwned, ServiceOwned, Holds, host, map
<1>5. SenderState' /\ RanBound'
  BY <1>2 DEF SenderState, RanBound, Quiet
<1>6. (service = "store" => reply)' /\ (server = "mapped" => service = "none")' /\ ~Ended'
  BY <1>1, <1>2, Alone DEF Ended, host
<1> QED
  BY <1>3, <1>4, <1>5, <1>6

(* The command is handed to the service thread.                            *)
LEMMA PublishInv ==
  ASSUME SerialWaiting, Orderly, NEW s \in Senders, Publish(s)
  PROVE  Orderly'
<1> USE DEF Orderly
<1>1. ~Quiet(s) /\ ~Holds(s) /\ pc' = [pc EXCEPT ![s] = "wait"]
  BY Alone DEF Publish, Quiet, Holds, Goto, IsCurrent
<1>2. service \notin {"claimed", "run", "answer", "store"}
  BY <1>1, Alone DEF ServiceOwned, Quiet
<1>3. TypeOK'
  BY <1>1, Alone DEF Publish, TypeOK, host
<1>4. OneSender' /\ CommandsOwned' /\ ServiceOwned'
  BY <1>1, <1>2, Alone DEF Publish, OneSender, CommandsOwned, ServiceOwned, Quiet, Holds,
     Ended, host, Cur, TypeOK
<1>5. SenderState' /\ RanBound'
  BY <1>1, <1>2, Alone DEF Publish, SenderState, RanBound, RanCurrent, IsCurrent, Quiet, host, TypeOK
<1>6. (service = "store" => reply)' /\ (server = "mapped" => service = "none")' /\ ~Ended'
  BY <1>1, Alone DEF Publish, Ended, host
<1> QED
  BY <1>3, <1>4, <1>5, <1>6

(* The sender sees that its message has run.                               *)
LEMMA SeeReplyInv ==
  ASSUME SerialWaiting, Orderly, NEW s \in Senders, SeeReply(s)
  PROVE  Orderly'
<1> USE DEF Orderly
<1>1. ~Quiet(s) /\ Holds(s) /\ pc' = [pc EXCEPT ![s] = "copy"] /\ status[at[s]] = 4
  BY DEF SeeReply, Quiet, Holds, Goto
<1>2. service \notin {"claimed", "run", "answer", "store"}
  BY <1>1, Alone DEF ServiceOwned, Quiet
<1>3. /\ status' \in [Places -> 0 .. 5]
      /\ status'[at[s]] \in {4, 5}
      /\ \A k \in Places \ {at[s]} : status'[k] = status[k]
      /\ UNCHANGED <<setId, getId, data, at, msg, sends, server, service, reply, astray, ran>>
  BY <1>1, Alone DEF SeeReply, TypeOK, host
<1>4. TypeOK'
  BY <1>1, <1>3, Alone DEF TypeOK
<1>5. OneSender' /\ CommandsOwned' /\ ServiceOwned'
  BY <1>1, <1>2, <1>3, Alone DEF OneSender, CommandsOwned, ServiceOwned, Quiet, Holds,
     Ended, TypeOK
<1>6. SenderState' /\ RanBound'
  <2>1. pc[s] = "wait" /\ pc'[s] = "copy" /\ \A t \in Senders \ {s} : pc'[t] = pc[t]
    BY <1>1 DEF SeeReply, TypeOK
  <2>2. IsCurrent(data[at[s]], s) /\ RanCurrent(s) = 1 /\ data[at[s]].done
    BY <1>1, <2>1 DEF SenderState
  <2>3. /\ \A t \in Senders : RanCurrent(t)' = RanCurrent(t)
        /\ \A t \in Senders : \A m : IsCurrent(m, t)' = IsCurrent(m, t)
    BY <1>3 DEF RanCurrent, IsCurrent
  <2>4. \A t \in Senders \ {s} : Quiet(t) /\ Quiet(t)'
    BY <1>1, <2>1, Alone DEF Quiet
  <2>5. SenderState'
    BY <1>1, <1>3, <2>1, <2>2, <2>3, <2>4, Alone DEF SenderState, Quiet
  <2> QED
    BY <1>3, <2>5 DEF RanBound
<1>7. (service = "store" => reply)' /\ (server = "mapped" => service = "none")' /\ ~Ended'
  BY <1>1, <1>3, Alone DEF Ended
<1> QED
  BY <1>4, <1>5, <1>6, <1>7

(* The sender copies the results back.                                     *)
LEMMA CopyBackInv ==
  ASSUME SerialWaiting, Orderly, NEW s \in Senders, CopyBack(s)
  PROVE  Orderly'
<1> USE DEF Orderly
<1>1. ~Quiet(s) /\ Holds(s) /\ pc[s] = "copy" /\ pc' = [pc EXCEPT ![s] = "release"]
  BY DEF CopyBack, Quiet, Holds, Goto
<1>2. msg' = [msg EXCEPT ![s] = data[at[s]]] /\ data[at[s]] \in Message
  BY <1>1 DEF CopyBack, SenderState, IsCurrent
<1>3. TypeOK'
  BY <1>1, <1>2, Alone DEF CopyBack, TypeOK, map, host
<1>4. OneSender' /\ CommandsOwned' /\ ServiceOwned'
  BY <1>1, Alone DEF CopyBack, OneSender, CommandsOwned, ServiceOwned, Quiet, Holds,
     Ended, map, host, Cur, TypeOK
<1>5. SenderState' /\ RanBound'
  BY <1>1, <1>2, Alone DEF CopyBack, SenderState, RanBound, RanCurrent, IsCurrent, Quiet, map, host, TypeOK
<1>6. (service = "store" => reply)' /\ (server = "mapped" => service = "none")' /\ ~Ended'
  BY <1>1, Alone DEF CopyBack, Ended, host
<1> QED
  BY <1>3, <1>4, <1>5, <1>6

(* The sender gives the command back.                                      *)
LEMMA ReleaseInv ==
  ASSUME SerialWaiting, Orderly, NEW s \in Senders, Release(s)
  PROVE  Orderly'
<1> USE DEF Orderly
<1>1. ~Quiet(s) /\ Holds(s) /\ pc[s] = "release" /\ pc' = [pc EXCEPT ![s] = "idle"]
  BY DEF Release, Quiet, Holds, Goto
<1>2. service \notin {"claimed", "run", "answer", "store"}
  BY <1>1, Alone DEF ServiceOwned, Quiet
<1>3. TypeOK'
  BY <1>1, Alone DEF Release, TypeOK, host
<1>4. OneSender' /\ CommandsOwned' /\ ServiceOwned'
  BY <1>1, <1>2, Alone DEF Release, OneSender, CommandsOwned, ServiceOwned, Quiet, Holds,
     Ended, host, TypeOK
<1>5. SenderState' /\ RanBound'
  BY <1>1, Alone DEF Release, SenderState, RanBound, Quiet, TypeOK
<1>6. (service = "store" => reply)' /\ (server = "mapped" => service = "none")' /\ ~Ended'
  BY <1>1, Alone DEF Release, Ended, host
<1> QED
  BY <1>3, <1>4, <1>5, <1>6

(* The steps of the server only move server, and service from its start. *)
LEMMA ServerInv ==
  ASSUME Orderly, Server
  PROVE  Orderly'
<1> USE DEF Orderly
<1>1. /\ UNCHANGED <<map, senders, reply, astray, ran>>
      /\ server' \in {"spawned", "up", "closed", "down"}
      /\ service' = service \/ (service = "none" /\ service' = "poll")
  <2>1. server = "mapped" => service = "none"
    OBVIOUS
  <2>2. CASE StartThread
    BY <2>1, <2>2 DEF StartThread
  <2>3. CASE StoreHandle \/ CloseHandle \/ Unmap
    BY <2>3 DEF StoreHandle, CloseHandle, Unmap
  <2> QED
    BY <2>2, <2>3 DEF Server
<1>2. CASE service' = service
  BY <1>1, <1>2 DEF map, senders, TypeOK, OneSender, CommandsOwned, ServiceOwned, SenderState,
     RanBound, Quiet, Holds, Ended, Cur, RanCurrent, IsCurrent
<1>3. CASE service = "none" /\ service' = "poll"
  BY <1>1, <1>3 DEF map, senders, TypeOK, OneSender, CommandsOwned, ServiceOwned, SenderState,
     RanBound, Quiet, Holds, Ended, Cur, RanCurrent, IsCurrent
<1> QED
  BY <1>1, <1>2, <1>3

(* The service thread moves between two states in which it holds nothing.  *)
LEMMA IdleServiceInv ==
  ASSUME Orderly, Poll \/ ClaimFails
  PROVE  Orderly'
<1>1. /\ UNCHANGED <<map, senders, server, reply, astray, ran>>
      /\ service \in {"poll", "try"} /\ service' \in {"poll", "try", "passed"}
  BY DEF Poll, ClaimFails
<1> QED
  BY <1>1 DEF Orderly, map, senders, TypeOK, OneSender, CommandsOwned, ServiceOwned, SenderState,
     RanBound, Quiet, Holds, Ended, Cur, RanCurrent, IsCurrent

(* The service thread touches a map that is gone.                          *)
LEMMA FaultInv ==
  ASSUME Orderly, Fault
  PROVE  Orderly'
BY DEF Fault, Orderly, map, senders, TypeOK, OneSender, CommandsOwned, ServiceOwned, SenderState,
   RanBound, Quiet, Holds, Ended, Cur, RanCurrent, IsCurrent

(* The sender the service thread works for, once it has claimed. *)
LEMMA Served ==
  ASSUME Orderly, service \in {"claimed", "run", "answer", "store"}
  PROVE  \E s \in Senders :
           /\ pc[s] = "wait" /\ at[s] = Cur /\ status[Cur] = 3 /\ Cur \in Places
           /\ IsCurrent(data[Cur], s) /\ sends[s] \in Numbers
           /\ \A t \in Senders \ {s} : Quiet(t)
<1>1. PICK s \in Senders : pc[s] = "wait" /\ at[s] = Cur /\ status[Cur] = 3
  BY DEF Orderly, ServiceOwned
<1>2. ~Quiet(s)
  BY <1>1 DEF Quiet
<1> QED
  BY <1>1, <1>2, Alone DEF Orderly, SenderState

(* The service thread takes the published command.                         *)
LEMMA ClaimInv ==
  ASSUME Orderly, Claim
  PROVE  Orderly'
<1> USE DEF Orderly
<1>1. Cur \in Places /\ status[Cur] = 2 /\ Cur' = Cur
  BY IdsInRange DEF Claim, TypeOK, Cur, senders
<1>2. PICK s \in Senders : Holds(s) /\ at[s] = Cur
  BY <1>1 DEF CommandsOwned, Claim, Ended
<1>3. pc[s] = "wait" /\ ~Quiet(s)
  BY <1>1, <1>2 DEF SenderState, Holds, Quiet
<1>4. /\ IsCurrent(data[Cur], s) /\ RanCurrent(s) = 0
      /\ \A t \in Senders \ {s} : Quiet(t)
  BY <1>1, <1>2, <1>3, Alone DEF SenderState
<1>5. status' = [status EXCEPT ![Cur] = 3] /\ service' = "claimed"
      /\ UNCHANGED <<setId, getId, data, pc, at, msg, sends, server, reply, astray, ran>>
  BY DEF Claim, senders
<1>6. TypeOK'
  BY <1>1, <1>5 DEF TypeOK
<1>7. OneSender' /\ ServiceOwned' /\ RanBound'
  BY <1>1, <1>2, <1>3, <1>5 DEF OneSender, ServiceOwned, RanBound, Quiet, TypeOK
<1>8. CommandsOwned'
  BY <1>1, <1>2, <1>5 DEF CommandsOwned, Holds, Ended, TypeOK, Claim
<1>9. SenderState'
  <2>1. status'[at[s]] = 3
    BY <1>1, <1>2, <1>5 DEF TypeOK
  <2> QED
    BY <1>2, <1>3, <1>4, <1>5, <2>1 DEF SenderState, Quiet, IsCurrent, RanCurrent
<1>10. (service = "store" => reply)' /\ (server = "mapped" => service = "none")' /\ ~Ended'
  BY <1>5 DEF Ended, Claim
<1> QED
  BY <1>6, <1>7, <1>8, <1>9, <1>10

(* It reads the handle once more.                                          *)
LEMMA RecheckInv ==
  ASSUME Orderly, Recheck
  PROVE  Orderly'
BY DEF Recheck, HandleSet, Orderly, map, senders, TypeOK, OneSender, CommandsOwned, ServiceOwned,
   SenderState, RanBound, Quiet, Holds, Ended, Cur, RanCurrent, IsCurrent

(* Without a handle it stops, though it has claimed nothing.               *)
LEMMA RecheckUnclaimedInv ==
  ASSUME Orderly, RecheckUnclaimed, ~astray'
  PROVE  Orderly'
<1>1. /\ UNCHANGED <<map, senders, server, reply, astray, ran>>
      /\ service = "passed" /\ service' = "stopped"
  BY DEF RecheckUnclaimed, Orderly, TypeOK
<1> QED
  BY <1>1 DEF Orderly, map, senders, TypeOK, OneSender, CommandsOwned, ServiceOwned, SenderState,
     RanBound, Quiet, Holds, Ended, Cur, RanCurrent, IsCurrent

(* It finds no message.                                                    *)
LEMMA BadMagicInv ==
  ASSUME Orderly, BadMagic
  PROVE  Orderly'
<1> USE DEF Orderly
<1>1. /\ service = "run" /\ service' = "exited"
      /\ pc' = IF DeviceBus THEN [t \in Senders |-> "gone"] ELSE pc
      /\ UNCHANGED <<map, at, msg, sends, server, reply, astray, ran>>
  BY DEF BadMagic
<1>2. TypeOK' /\ RanBound'
  BY <1>1 DEF TypeOK, map, RanBound
<1>3. (service = "store" => reply)' /\ (server = "mapped" => service = "none")'
  BY <1>1
<1>4. CASE DeviceBus
  BY <1>1, <1>2, <1>3, <1>4
     DEF OneSender, CommandsOwned, ServiceOwned, SenderState, Quiet, Ended
<1>5. CASE ~DeviceBus
  <2>1. OneSender' /\ CommandsOwned' /\ ServiceOwned' /\ ~Ended'
    BY <1>1, <1>5 DEF OneSender, CommandsOwned, ServiceOwned, Quiet, Holds, Ended, map
  <2>2. SenderState'
    BY <1>1, <1>5 DEF SenderState, Quiet, map, IsCurrent, RanCurrent
  <2> QED
    BY <1>2, <1>3, <2>1, <2>2
<1> QED
  BY <1>4, <1>5

(* It runs the message.                                                    *)
LEMMA RunInv ==
  ASSUME Orderly, Run
  PROVE  Orderly'
<1> USE DEF Orderly
<1>1. PICK s \in Senders :
        /\ pc[s] = "wait" /\ at[s] = Cur /\ status[Cur] = 3 /\ Cur \in Places
        /\ IsCurrent(data[Cur], s) /\ sends[s] \in Numbers
        /\ \A t \in Senders \ {s} : Quiet(t)
  BY Served DEF Run
<1>2. /\ RanCurrent(s) = 0
      /\ data[Cur] \in Message /\ data[Cur].from = s /\ data[Cur].num = sends[s]
  BY <1>1 DEF Run, SenderState, IsCurrent
<1>3. /\ data' = [data EXCEPT ![Cur].done = TRUE]
      /\ ran' = [ran EXCEPT ![s][sends[s]] = @ + 1]
      /\ service = "run" /\ service' = "answer"
      /\ UNCHANGED <<setId, getId, status, pc, at, msg, sends, server, reply, astray>>
  BY <1>2 DEF Run, CountRun, senders
<1>4. IsCurrent(data'[Cur], s) /\ data'[Cur].done /\ data'[Cur] \in Message
  BY <1>1, <1>2, <1>3 DEF IsCurrent, Message, TypeOK
<1>5. /\ ran' \in [Senders -> [Numbers -> Nat]]
      /\ ran'[s][sends[s]] = 1
      /\ \A t \in Senders, n \in Numbers : <<t, n>> # <<s, sends[s]>> => ran'[t][n] = ran[t][n]
  BY <1>1, <1>2, <1>3 DEF TypeOK, RanCurrent
<1>6. TypeOK'
  BY <1>1, <1>3, <1>4, <1>5 DEF TypeOK
<1>7. OneSender' /\ CommandsOwned' /\ ServiceOwned'
  BY <1>1, <1>3 DEF OneSender, CommandsOwned, ServiceOwned, Quiet, Holds, Ended, Cur
<1>8. RanBound'
  BY <1>1, <1>3, <1>5 DEF RanBound, TypeOK, Numbers
<1>9. SenderState'
  <2>1. IsCurrent(data[at[s]], s)' /\ RanCurrent(s)' = 1 /\ IsCurrent(msg[s], s)'
    BY <1>1, <1>3, <1>4, <1>5 DEF RanCurrent, IsCurrent, SenderState, Quiet
  <2>2. \A t \in Senders \ {s} : Quiet(t)'
    BY <1>1, <1>3 DEF Quiet
  <2> QED
    BY <1>1, <1>3, <1>4, <2>1, <2>2 DEF SenderState, Quiet
<1>10. (service = "store" => reply)' /\ (server = "mapped" => service = "none")' /\ ~Ended'
  BY <1>3 DEF Ended
<1> QED
  BY <1>6, <1>7, <1>8, <1>9, <1>10

(* It runs a message that ends it.                                         *)
LEMMA RunExitsInv ==
  ASSUME Orderly, RunExits
  PROVE  Orderly'
<1> USE DEF Orderly
<1>1. PICK s \in Senders :
        /\ pc[s] = "wait" /\ at[s] = Cur /\ status[Cur] = 3 /\ Cur \in Places
        /\ IsCurrent(data[Cur], s) /\ sends[s] \in Numbers
        /\ \A t \in Senders \ {s} : Quiet(t)
  BY Served DEF RunExits
<1>2. RanCurrent(s) = 0 /\ data[Cur].from = s /\ data[Cur].num = sends[s]
  BY <1>1 DEF RunExits, SenderState, IsCurrent
<1>3. /\ ran' = [ran EXCEPT ![s][sends[s]] = @ + 1]
      /\ service = "run" /\ service' = "exited"
      /\ pc' = IF DeviceBus THEN [t \in Senders |-> "gone"] ELSE pc
      /\ UNCHANGED <<map, at, msg, sends, server, reply, astray>>
  BY <1>2 DEF RunExits, CountRun
<1>4. /\ ran' \in [Senders -> [Numbers -> Nat]]
      /\ ran'[s][sends[s]] = 1
      /\ \A t \in Senders, n \in Numbers : <<t, n>> # <<s, sends[s]>> => ran'[t][n] = ran[t][n]
  BY <1>1, <1>2, <1>3 DEF TypeOK, RanCurrent
<1>5. TypeOK'
  BY <1>3, <1>4 DEF TypeOK, map
<1>6. RanBound'
  BY <1>1, <1>3, <1>4 DEF RanBound, TypeOK, Numbers
<1>7. (service = "store" => reply)' /\ (server = "mapped" => service = "none")'
  BY <1>3
<1>8. CASE DeviceBus
  BY <1>3, <1>5, <1>6, <1>7, <1>8
     DEF OneSender, CommandsOwned, ServiceOwned, SenderState, Quiet, Ended
<1>9. CASE ~DeviceBus
  <2>1. OneSender' /\ CommandsOwned' /\ ServiceOwned' /\ ~Ended'
    BY <1>3, <1>9 DEF OneSender, CommandsOwned, ServiceOwned, Quiet, Holds, Ended, map
  <2>2. SenderState'
    BY <1>1, <1>3, <1>9 DEF SenderState, Quiet, map, IsCurrent, RanCurrent
  <2> QED
    BY <1>5, <1>6, <1>7, <2>1, <2>2
<1> QED
  BY <1>8, <1>9

(* It reads whether somebody waits.                                        *)
LEMMA ReadWaitInv ==
  ASSUME Orderly, ReadWait
  PROVE  Orderly'
<1>1. PICK s \in Senders :
        /\ pc[s] = "wait" /\ at[s] = Cur /\ status[Cur] = 3 /\ Cur \in Places
        /\ IsCurrent(data[Cur], s) /\ sends[s] \in Numbers
        /\ \A t \in Senders \ {s} : Quiet(t)
  BY Served DEF ReadWait
<1>2. reply' = TRUE /\ service' = "store"
  BY <1>1, ZenonT(20) DEF ReadWait, IsCurrent, Message
<1> QED
  BY <1>1, <1>2 DEF ReadWait, Orderly, map, senders, TypeOK, OneSender, CommandsOwned, ServiceOwned,
     SenderState, RanBound, Quiet, Holds, Ended, Cur, RanCurrent, IsCurrent

(* It tells so, by the status.                                             *)
LEMMA StoreStatusInv ==
  ASSUME Orderly, StoreStatus
  PROVE  Orderly'
<1> USE DEF Orderly
<1>1. PICK s \in Senders :
        /\ pc[s] = "wait" /\ at[s] = Cur /\ status[Cur] = 3 /\ Cur \in Places
        /\ IsCurrent(data[Cur], s) /\ sends[s] \in Numbers
        /\ \A t \in Senders \ {s} : Quiet(t)
  BY Served DEF StoreStatus
<1>2. RanCurrent(s) = 1 /\ data[Cur].done /\ IsCurrent(msg[s], s)
  BY <1>1 DEF StoreStatus, SenderState, Quiet
<1>3. /\ status' = [status EXCEPT ![Cur] = 4]
      /\ service = "store" /\ service' = "advance"
      /\ UNCHANGED <<setId, getId, data, pc, at, msg, sends, server, reply, astray, ran>>
  BY DEF StoreStatus, senders
<1>4. TypeOK' /\ status'[Cur] = 4
  BY <1>1, <1>3 DEF TypeOK
<1>5. OneSender' /\ CommandsOwned' /\ ServiceOwned' /\ RanBound'
  BY <1>1, <1>3 DEF OneSender, CommandsOwned, ServiceOwned, RanBound, Quiet, Holds, Ended, TypeOK
<1>6. SenderState'
  BY <1>1, <1>2, <1>3, <1>4 DEF SenderState, Quiet, IsCurrent, RanCurrent
<1>7. (service = "store" => reply)' /\ (server = "mapped" => service = "none")' /\ ~Ended'
  BY <1>3 DEF Ended
<1> QED
  BY <1>4, <1>5, <1>6, <1>7

(* It goes on to the next command.                                         *)
LEMMA AdvanceInv ==
  ASSUME Orderly, Advance
  PROVE  Orderly'
<1>1. Bump(getId) \in 0 .. Ids - 1
  BY IdsInRange DEF Orderly, TypeOK
<1> QED
  BY <1>1 DEF Advance, Orderly, senders, TypeOK, OneSender, CommandsOwned, ServiceOwned, SenderState,
     RanBound, Quiet, Holds, Ended, RanCurrent, IsCurrent

(* Nothing brings the service thread back.                                 *)
LEMMA AstrayStays ==
  ASSUME [Next]_vars, ~astray'
  PROVE  ~astray
<1>1. ASSUME NEW s \in Senders, Send(s) PROVE ~astray
  BY <1>1 DEF Send, Reserve, Fill, TooLong, Publish, SeeReply, CopyBack, Release, host
<1>2. CASE Server
  BY <1>2 DEF Server, StartThread, StoreHandle, CloseHandle, Unmap
<1>3. CASE Service
  BY <1>3 DEF Service, Poll, Claim, ClaimFails, Recheck, RecheckUnclaimed, BadMagic, Run,
     RunExits, ReadWait, StoreStatus, Advance, Fault
<1> QED
  BY <1>1, <1>2, <1>3 DEF Next, vars, host

(* One step per label.                                                     *)
LEMMA OrderlyStep ==
  ASSUME SerialWaiting, Orderly, [Next]_vars, ~astray'
  PROVE  Orderly'
<1>1. ASSUME NEW s \in Senders, Send(s) PROVE Orderly'
  BY <1>1, ReserveInv, FillInv, TooLongInv, PublishInv, SeeReplyInv, CopyBackInv, ReleaseInv
     DEF Send
<1>2. CASE Server
  BY <1>2, ServerInv
<1>3. CASE Service
  BY <1>3, IdleServiceInv, ClaimInv, RecheckInv, RecheckUnclaimedInv, BadMagicInv, RunInv,
     RunExitsInv, ReadWaitInv, StoreStatusInv, AdvanceInv, FaultInv DEF Service
<1>4. CASE UNCHANGED vars
  BY <1>4 DEF vars, map, senders, host, Orderly, TypeOK, OneSender, CommandsOwned, ServiceOwned,
     SenderState, RanBound, Quiet, Holds, Ended, Cur, RanCurrent, IsCurrent
<1> QED
  BY <1>1, <1>2, <1>3, <1>4 DEF Next

-----------------------------------------------------------------------------
(* The theorems.  They hold for every set of senders, every number of      *)
(* commands in the map and every width of the ids.                         *)

(* Whenever waiting senders take turns, the one message in flight, its     *)
(* command and the service thread fit together (sentinelClientSend and the *)
(* service threads), unless the service thread has been led astray at its  *)
(* start.                                                                  *)
THEOREM Invariance == SerialWaiting => (Spec => []IInv)
<1> SUFFICES ASSUME SerialWaiting PROVE Spec => []IInv
  OBVIOUS
<1>1. Init => IInv
  BY InitInv DEF IInv
<1>2. IInv /\ [Next]_vars => IInv'
  BY OrderlyStep, AstrayStays DEF IInv
<1> QED
  BY <1>1, <1>2, PTL DEF Spec

(* Every waiting send of one sender at a time gets the reply to its own    *)
(* message, from a command the host has executed exactly once, unless the  *)
(* service thread has gone astray.                                         *)
THEOREM OwnReply == SerialWaiting => (Spec => []ReplyIsOwn)
<1>1. IInv => ReplyIsOwn
  BY DEF IInv, Orderly, SenderState, ReplyIsOwn, IsCurrent, RanCurrent, Quiet
<1> QED
  BY <1>1, Invariance, PTL

(* No message is executed twice, unless the service thread has gone astray.*)
THEOREM AtMostOnce == SerialWaiting => (Spec => []RunsAtMostOnce)
<1>1. IInv => RunsAtMostOnce
  BY DEF IInv, Orderly, RanBound, RunsAtMostOnce
<1> QED
  BY <1>1, Invariance, PTL

-----------------------------------------------------------------------------
(* Serialized waiting sends implement remote calls: what a step of the bus *)
(* does is a step of RemoteCall, or leaves the phases of all calls alone.  *)

Phases == [s \in Senders |-> Phase(s)]

(* The phase of a call.                                                    *)
LEMMA PhaseValue ==
  ASSUME NEW s \in Senders
  PROVE  /\ pc[s] = "idle" => Phase(s) = "idle"
         /\ pc[s] = "gone" => Phase(s) = "gone"
         /\ ~Quiet(s) /\ RanCurrent(s) = 0 => Phase(s) = "called"
         /\ ~Quiet(s) /\ RanCurrent(s) = 1 => Phase(s) = "executed"
BY DEF Phase, Quiet, RanCurrent

(* The phase of a call in the next state.                                  *)
LEMMA PhaseValueNext ==
  ASSUME NEW s \in Senders
  PROVE  /\ pc'[s] = "idle" => Phase(s)' = "idle"
         /\ pc'[s] = "gone" => Phase(s)' = "gone"
         /\ ~Quiet(s)' /\ RanCurrent(s)' = 0 => Phase(s)' = "called"
         /\ ~Quiet(s)' /\ RanCurrent(s)' = 1 => Phase(s)' = "executed"
BY DEF Phase, Quiet, RanCurrent

(* A sender none of whose three variables changes keeps its phase. *)
LEMMA PhaseKept ==
  ASSUME NEW s \in Senders, UNCHANGED <<pc[s], sends[s], ran[s]>>
  PROVE  Phase(s)' = Phase(s)
BY DEF Phase, Quiet

(* One sender moves from a phase to the next, the others keep theirs. *)
LEMMA PhaseMove ==
  ASSUME NEW s \in Senders, NEW p, Phase(s)' = p,
         \A t \in Senders \ {s} : Phase(t)' = Phase(t)
  PROVE  Phases' = [Phases EXCEPT ![s] = p]
BY DEF Phases

(* What a step of a sender is to a remote call.                            *)
LEMMA SendRefines ==
  ASSUME SerialWaiting, Orderly, Orderly', NEW s \in Senders, Send(s)
  PROVE  RC!Step \/ UNCHANGED Phases
<1>1. ASSUME NEW w \in Waits, NEW k \in Kinds, Reserve(s, w, k) PROVE RC!Call(s)
  <2>1. pc[s] = "idle" /\ ~Quiet(s)' /\ RanCurrent(s)' = 0
    BY <1>1 DEF Reserve, CanSend, Goto, Orderly, TypeOK, SenderState, Quiet
  <2>2. \A t \in Senders \ {s} : Phase(t)' = Phase(t)
    BY <1>1, PhaseKept DEF Reserve, Goto, Orderly, TypeOK
  <2>3. Phase(s) = "idle" /\ Phase(s)' = "called"
    BY <2>1, PhaseValue, PhaseValueNext
  <2> QED
    BY <2>2, <2>3, PhaseMove DEF RC!Call, Phases
<1>2. ASSUME Fill(s) \/ Publish(s) \/ SeeReply(s) \/ CopyBack(s) PROVE UNCHANGED Phases
  <2>1. /\ ~Quiet(s) /\ ~Quiet(s)' /\ UNCHANGED <<sends, ran>>
        /\ \A t \in Senders \ {s} : pc'[t] = pc[t]
    BY <1>2, Alone DEF Fill, Publish, SeeReply, CopyBack, Goto, Orderly, TypeOK, Quiet, IsCurrent
  <2>2. \A t \in Senders \ {s} : Phase(t)' = Phase(t)
    BY <2>1, PhaseKept
  <2>3. Phase(s)' = Phase(s)
    BY <2>1 DEF Phase, Quiet
  <2> QED
    BY <2>2, <2>3 DEF Phases
<1>3. ASSUME TooLong(s) PROVE RC!Vanish(IF DeviceBus THEN Senders ELSE {s})
  <2>1. /\ UNCHANGED <<sends, ran>>
        /\ \A t \in Senders : pc'[t] = IF DeviceBus \/ t = s THEN "gone" ELSE pc[t]
    BY <1>3 DEF TooLong
  <2>2. \A t \in Senders : Phase(t)' = IF DeviceBus \/ t = s THEN "gone" ELSE Phase(t)
    BY <2>1, PhaseKept, PhaseValueNext
  <2> QED
    BY <2>2 DEF RC!Vanish, Phases
<1>4. ASSUME Release(s) PROVE RC!Return(s)
  <2>1. ~Quiet(s) /\ RanCurrent(s) = 1 /\ pc'[s] = "idle"
    BY <1>4 DEF Release, Goto, Orderly, TypeOK, SenderState, Quiet
  <2>2. \A t \in Senders \ {s} : Phase(t)' = Phase(t)
    BY <1>4, PhaseKept DEF Release, Goto, Orderly, TypeOK
  <2>3. Phase(s) = "executed" /\ Phase(s)' = "idle"
    BY <2>1, PhaseValue, PhaseValueNext
  <2> QED
    BY <2>2, <2>3, PhaseMove DEF RC!Return, Phases
<1> QED
  BY <1>1, <1>2, <1>3, <1>4 DEF Send, RC!Step

(* The serving sender's call is executed by RunExits or Run. *)
LEMMA ExecuteRefines ==
  ASSUME Orderly, Orderly', Run \/ (RunExits /\ ~DeviceBus)
  PROVE  \E s \in Senders : RC!Execute(s)
<1>1. PICK s \in Senders :
        /\ pc[s] = "wait" /\ at[s] = Cur /\ status[Cur] = 3
        /\ IsCurrent(data[Cur], s) /\ sends[s] \in Numbers
  BY Served DEF Run, RunExits
<1>2. RanCurrent(s) = 0 /\ data[Cur].from = s /\ data[Cur].num = sends[s]
  BY <1>1 DEF Run, RunExits, Orderly, SenderState, IsCurrent
<1>3. UNCHANGED <<pc, sends>> /\ ran' = [ran EXCEPT ![s][sends[s]] = @ + 1]
  BY <1>2 DEF Run, RunExits, CountRun, senders
<1>4. ~Quiet(s) /\ ~Quiet(s)' /\ RanCurrent(s)' = 1
  BY <1>1, <1>2, <1>3 DEF Quiet, RanCurrent, Orderly, TypeOK
<1>5. \A t \in Senders \ {s} : Phase(t)' = Phase(t)
  BY <1>3, PhaseKept DEF Orderly, TypeOK
<1>6. Phase(s) = "called" /\ Phase(s)' = "executed"
  BY <1>2, <1>4, PhaseValue, PhaseValueNext
<1> QED
  BY <1>5, <1>6, PhaseMove DEF RC!Execute, Phases

(* What a step of the service thread is to it.                             *)
LEMMA ServiceRefines ==
  ASSUME Orderly, Orderly', Service
  PROVE  RC!Step \/ UNCHANGED Phases
<1>1. CASE Run \/ (RunExits /\ ~DeviceBus)
  BY <1>1, ExecuteRefines DEF RC!Step
<1>2. CASE (RunExits \/ BadMagic) /\ DeviceBus
  <2>1. \A s \in Senders : Phase(s)' = "gone"
    BY <1>2, PhaseValueNext DEF RunExits, BadMagic
  <2>2. RC!Vanish(Senders)
    BY <2>1 DEF RC!Vanish, Phases
  <2> QED
    BY <2>2 DEF RC!Step
<1>3. CASE UNCHANGED <<pc, sends, ran>>
  BY <1>3, PhaseKept DEF Phases
<1> QED
  BY <1>1, <1>2, <1>3 DEF Service, Poll, Claim, ClaimFails, Recheck, RecheckUnclaimed,
     BadMagic, ReadWait, StoreStatus, Advance, Fault, senders, map

(* Each step is one of remote calls, or none, or the bus has broken.       *)
LEMMA StepRefines ==
  ASSUME SerialWaiting, IInv, IInv', [Next]_vars
  PROVE  [RC!Next]_<<Phases, astray>>
<1>1. CASE astray'
  BY <1>1 DEF RC!Next, RC!Break
<1>2. CASE ~astray'
  <2>1. ~astray /\ Orderly /\ Orderly'
    BY <1>2, AstrayStays DEF IInv
  <2>2. astray' = astray
    BY <1>2, <2>1 DEF Orderly, TypeOK
  <2>3. ASSUME NEW s \in Senders, Send(s) PROVE RC!Step \/ UNCHANGED Phases
    BY <2>1, <2>3, SendRefines
  <2>4. ASSUME Service PROVE RC!Step \/ UNCHANGED Phases
    BY <2>1, <2>4, ServiceRefines
  <2>5. ASSUME Server \/ UNCHANGED vars PROVE UNCHANGED Phases
    <3>1. UNCHANGED <<pc, sends, ran>>
      BY <2>5 DEF Server, StartThread, StoreHandle, CloseHandle, Unmap, vars, senders
    <3> QED
      BY <3>1, PhaseKept DEF Phases
  <2>6. RC!Step \/ UNCHANGED Phases
    BY <2>3, <2>4, <2>5 DEF Next
  <2> QED
    BY <1>2, <2>1, <2>2, <2>6 DEF RC!Next, RC!Work
<1> QED
  BY <1>1, <1>2

(* A serialized waiting send is a remote call, executed exactly once, as   *)
(* long as the service thread serves what it has claimed.                  *)
THEOREM Refinement == SerialWaiting => (Spec => ImplementsRemoteCall)
<1> SUFFICES ASSUME SerialWaiting PROVE Spec => RC!Spec
  BY DEF ImplementsRemoteCall
<1>1. Init => RC!Init
  BY DEF Init, RC!Init, Phase, Quiet
<1>2. IInv /\ IInv' /\ [Next]_vars => [RC!Next]_<<Phases, astray>>
  BY StepRefines
<1>3. Spec => []IInv
  BY Invariance
<1> QED
  BY <1>1, <1>2, <1>3, PTL DEF Spec, RC!Spec, Phases

-----------------------------------------------------------------------------
(* Senders that overlap.                                                   *)

(* The map has a command for every message: no place is used twice.        *)
Roomy == IsFiniteSet(Senders) /\ Cardinality(Senders \X Numbers) <= Slots /\ Slots < Ids /\ NoMsg \notin Message

(* The messages that were given an id. *)
Sent == {x \in Senders \X Numbers : x[2] <= sends[x[1]]}

(* The service thread works on the command at getId, or has just done so. *)
Working == service \in {"claimed", "run", "answer", "store", "advance"}

(* The command at k has not been run yet. *)
Unrun(k) == k > getId \/ (k = getId /\ service \in {"none", "poll", "try", "passed", "claimed", "run"})

IdsInv ==
  /\ setId = Cardinality(Sent) /\ setId <= Slots /\ getId <= setId
  /\ Working => getId < setId

PlaceOK(k) ==
  /\ k >= setId => status[k] = 0 /\ data[k] = NoMsg
  /\ k < getId => status[k] \in {0, 4, 5}
  /\ status[k] \in {2, 3} => data[k] # NoMsg
  /\ status[k] = 3 => k = getId

PlacesInv == \A k \in Places : PlaceOK(k)

ServiceInv ==
  /\ service \in {"claimed", "run", "answer", "store"} => status[getId] = 3
  /\ service \in {"none", "poll", "try", "passed"} => \A k \in Places : status[k] # 3
  /\ service = "advance" => status[getId] \in {0, 4, 5}
  /\ service \in {"answer", "store"} => data[getId].done
  /\ service = "store" => (reply <=> data[getId].wait)

(* What is known of the message in the command at k. *)
MessageOK(k) ==
  data[k] # NoMsg =>
    /\ data[k].num \in Numbers /\ data[k].num <= sends[data[k].from]
    /\ data[k].num = sends[data[k].from] /\ ~Quiet(data[k].from) =>
         at[data[k].from] = k /\ pc[data[k].from] # "fill"
    /\ data[k].done => ran[data[k].from][data[k].num] = 1
    /\ Unrun(k) => ran[data[k].from][data[k].num] = 0

MessagesInv ==
  /\ \A k \in Places : MessageOK(k)
  /\ \A j, k \in Places : data[j] # NoMsg /\ data[k] # NoMsg /\ j # k =>
       data[j].from # data[k].from \/ data[j].num # data[k].num

(* m is the message sender s is sending. *)
Sending(m, s) == m \in Message /\ m.from = s /\ m.num = sends[s]

(* What is known of a sender in a send. *)
SenderOK(s) ==
  ~Quiet(s) =>
    /\ sends[s] \in Numbers /\ at[s] < setId /\ Sending(msg[s], s)
    /\ pc[s] \in {"fill", "publish"} =>
         /\ status[at[s]] = 0 /\ ~msg[s].done /\ ran[s][sends[s]] = 0
         /\ at[s] >= getId /\ (Working => at[s] # getId)
    /\ pc[s] = "fill" => data[at[s]] = NoMsg
    /\ pc[s] = "publish" => data[at[s]] = msg[s]
    /\ pc[s] \in {"wait", "copy", "release"} => Sending(data[at[s]], s) /\ data[at[s]].wait
    /\ pc[s] = "wait" => status[at[s]] \in {2, 3, 4} /\ (status[at[s]] = 4 => data[at[s]].done)
    /\ pc[s] \in {"copy", "release"} => status[at[s]] \in {4, 5} /\ data[at[s]].done
    /\ pc[s] = "release" => msg[s].done

SendersInv ==
  /\ \A s, t \in Senders : ~Quiet(s) /\ ~Quiet(t) /\ at[s] = at[t] => s = t
  /\ \A s \in Senders : SenderOK(s)

RunsInv == \A s \in Senders, n \in Numbers : ran[s][n] <= 1 /\ (n > sends[s] => ran[s][n] = 0)

RoomyOrderly ==
  /\ TypeOK
  /\ IdsInv /\ PlacesInv /\ ServiceInv /\ MessagesInv /\ SendersInv /\ RunsInv
  /\ server = "mapped" => service = "none"

(* Again only the start-up race ends it.                                   *)
RoomyInv == ~astray => RoomyOrderly

(* The invariant holds of a fresh map.                                     *)
LEMMA RoomyInit ==
  ASSUME Init
  PROVE  RoomyOrderly
<1>1. TypeOK
  <2>1. ran \in [Senders -> [Numbers -> Nat]]
    BY DEF Init
  <2>2. 0 \in Places /\ 0 \in 0 .. Ids - 1 /\ 0 \in 0 .. MaxSends
    BY SentinelAssumption DEF Places
  <2>3. reply \in BOOLEAN /\ astray \in BOOLEAN
    BY DEF Init
  <2> QED
    BY <2>1, <2>2, <2>3 DEF Init, TypeOK
<1>2. IdsInv
  <2>1. Sent = {}
    BY DEF Init, Sent, Numbers
  <2> QED
    BY <2>1, FS_EmptySet, SentinelAssumption DEF Init, IdsInv, Working
<1>3. PlacesInv /\ ServiceInv /\ MessagesInv
  BY DEF Init, PlacesInv, PlaceOK, ServiceInv, MessagesInv, MessageOK, Places
<1>4. SendersInv /\ RunsInv
  BY DEF Init, SendersInv, SenderOK, RunsInv, Quiet
<1> QED
  BY <1>1, <1>2, <1>3, <1>4 DEF RoomyOrderly, Init

(* Where things are: no id has been used twice. *)
LEMMA Fresh ==
  ASSUME Roomy, RoomyOrderly
  PROVE  /\ setId \in Nat /\ getId \in Nat /\ getId <= setId /\ setId <= Slots
         /\ IsFiniteSet(Sent)
         /\ getId < setId => getId \in Places /\ Cur = getId /\ Bump(getId) = getId + 1
         /\ \A s \in Senders, n \in Numbers : n > sends[s] =>
              /\ setId \in Places /\ PlaceOf(setId) = setId /\ Bump(setId) = setId + 1
              /\ Cardinality(Sent \cup {<<s, n>>}) = setId + 1
<1>1. /\ setId \in Nat /\ getId \in Nat /\ getId <= setId /\ setId <= Slots
      /\ Slots \in Nat \ {0} /\ Ids \in Nat \ {0} /\ Slots < Ids
  BY SentinelAssumption DEF RoomyOrderly, TypeOK, IdsInv, Roomy
<1>2. ASSUME NEW id \in Nat, id < Slots
      PROVE  id \in Places /\ PlaceOf(id) = id /\ Bump(id) = id + 1
  <2>1. id % Slots = id /\ (id + 1) % Ids = id + 1
    BY <1>1, <1>2
  <2> QED
    BY <1>1, <1>2, <2>1 DEF Places, PlaceOf, Bump
<1>3. IsFiniteSet(Senders \X Numbers) /\ Cardinality(Senders \X Numbers) \in Nat
  <2>1. IsFiniteSet(Numbers)
    BY FS_Interval, SentinelAssumption DEF Numbers
  <2> QED
    BY <2>1, FS_Product, FS_CardinalityType DEF Roomy
<1>4. IsFiniteSet(Sent) /\ Sent \subseteq Senders \X Numbers
  BY <1>3, FS_Subset DEF Sent
<1>5. ASSUME NEW s \in Senders, NEW n \in Numbers, n > sends[s]
      PROVE  setId < Slots /\ Cardinality(Sent \cup {<<s, n>>}) = setId + 1
  <2>1. <<s, n>> \notin Sent
    <3>1. <<s, n>>[1] = s /\ <<s, n>>[2] = n /\ sends[s] \in Nat /\ n \in Nat
      BY DEF RoomyOrderly, TypeOK, Numbers
    <3> QED
      BY <1>5, <3>1 DEF Sent
  <2>2. Cardinality(Sent \cup {<<s, n>>}) = setId + 1
    BY <1>4, <2>1, FS_AddElement DEF RoomyOrderly, IdsInv
  <2>3. Sent \cup {<<s, n>>} \in SUBSET (Senders \X Numbers)
    BY <1>4
  <2>4. Cardinality(Sent \cup {<<s, n>>}) <= Cardinality(Senders \X Numbers)
    BY <1>3, <2>3, FS_Subset
  <2> QED
    BY <1>1, <1>3, <2>2, <2>4 DEF Roomy
<1>6. getId < setId => getId < Slots
  BY <1>1
<1> QED
  BY <1>1, <1>2, <1>4, <1>5, <1>6 DEF Cur

(* A sender takes an id nobody had, and its command.                       *)
LEMMA RoomyReserve ==
  ASSUME Roomy, RoomyOrderly, NEW s \in Senders, NEW w \in Waits, NEW k \in Kinds, Reserve(s, w, k)
  PROVE  RoomyOrderly'
<1> USE DEF RoomyOrderly
<1> DEFINE n == sends[s] + 1
<1>1. n \in Numbers /\ sends[s] \in Nat /\ n > sends[s] /\ n \in 0 .. MaxSends
  BY SentinelAssumption DEF Reserve, CanSend, TypeOK, Numbers
<1>2. /\ setId \in Places /\ PlaceOf(setId) = setId /\ Bump(setId) = setId + 1
      /\ Cardinality(Sent \cup {<<s, n>>}) = setId + 1
      /\ setId \in Nat /\ getId \in Nat /\ getId <= setId /\ setId <= Slots
  BY <1>1, Fresh
<1>3. /\ pc[s] = "idle" /\ pc'[s] = "fill" /\ sends'[s] = n /\ at'[s] = setId /\ setId' = setId + 1
      /\ \A t \in Senders \ {s} : pc'[t] = pc[t] /\ sends'[t] = sends[t] /\ at'[t] = at[t] /\ msg'[t] = msg[t]
      /\ UNCHANGED <<getId, status, data, server, service, reply, astray, ran>>
  BY <1>2 DEF Reserve, CanSend, TypeOK, Goto, host
<1>4. msg'[s] \in Message /\ msg'[s].from = s /\ msg'[s].num = n /\ ~msg'[s].done
  BY <1>1, SentinelAssumption DEF Reserve, TypeOK, Message
<1>5. TypeOK'
  <2>1. setId' \in 0 .. Ids - 1
    BY <1>2, <1>3, SentinelAssumption DEF Roomy, Places
  <2>2. at' \in [Senders -> Places] /\ pc' \in [Senders -> {"idle", "fill", "publish", "wait", "copy", "release", "gone"}]
    BY <1>2 DEF Reserve, TypeOK, Goto
  <2>3. msg' \in [Senders -> Message \cup {NoMsg}] /\ sends' \in [Senders -> 0 .. MaxSends]
    BY <1>1, <1>4 DEF Reserve, TypeOK
  <2> QED
    BY <1>3, <2>1, <2>2, <2>3 DEF TypeOK
<1>6. IdsInv'
  <2>1. Sent' = Sent \cup {<<s, n>>}
    <3>1. ASSUME NEW t \in Senders, NEW i \in Numbers
          PROVE  i <= sends'[t] <=> i <= sends[t] \/ (t = s /\ i = n)
      BY <1>1, <1>3 DEF Numbers, TypeOK
    <3>2. \A x \in Senders \X Numbers : x[1] \in Senders /\ x[2] \in Numbers /\ x = <<x[1], x[2]>>
      OBVIOUS
    <3> HIDE DEF n
    <3> QED
      BY <1>1, <3>1, <3>2 DEF Sent
  <2>2. setId + 1 <= Slots
    BY <1>2, SentinelAssumption DEF Places
  <2> QED
    BY <1>2, <1>3, <2>1, <2>2 DEF IdsInv, Working
<1>7. PlacesInv' /\ ServiceInv'
  <2>1. ASSUME NEW j \in Places PROVE PlaceOK(j)'
    BY <1>2, <1>3 DEF PlacesInv, PlaceOK, Places
  <2> QED
    BY <1>3, <2>1 DEF PlacesInv, ServiceInv, Places
<1>8. MessagesInv'
  <2>1. ASSUME NEW j \in Places PROVE MessageOK(j)'
    <3>1. CASE data[j] = NoMsg
      BY <1>3, <3>1 DEF MessageOK
    <3>2. CASE data[j] # NoMsg
      <4>1. /\ data[j].from \in Senders /\ data'[j] = data[j] /\ data[j].num \in Nat
            /\ sends[data[j].from] \in Nat /\ data[j].num <= sends[data[j].from]
        BY <1>3, <3>2 DEF TypeOK, Message, MessagesInv, MessageOK, Numbers
      <4>2. CASE data[j].from = s
        BY <1>1, <1>3, <3>2, <4>1, <4>2 DEF MessagesInv, MessageOK, Unrun
      <4>3. CASE data[j].from # s
        BY <1>3, <3>2, <4>1, <4>3 DEF MessagesInv, MessageOK, Unrun, Quiet
      <4> QED
        BY <4>2, <4>3
    <3> QED
      BY <3>1, <3>2
  <2> QED
    BY <1>3, <2>1 DEF MessagesInv, Places
<1>9. SendersInv'
  <2>1. status[setId] = 0 /\ data[setId] = NoMsg
    BY <1>2 DEF PlacesInv, PlaceOK
  <2>2. ran[s][n] = 0
    BY <1>1 DEF RunsInv
  <2>3. \A t \in Senders \ {s} : ~Quiet(t) => at[t] < setId
    BY DEF SendersInv, SenderOK
  <2>4. Quiet(s) /\ Working' = Working
    BY <1>3 DEF Quiet, Working
  <2>5. ASSUME NEW t \in Senders, NEW u \in Senders, ~Quiet(t)', ~Quiet(u)', at'[t] = at'[u]
        PROVE  t = u
    <3>1. \A v \in Senders \ {s} : ~Quiet(v)' => ~Quiet(v) /\ at'[v] = at[v] /\ at[v] # setId
      BY <1>2, <1>3, <2>3 DEF Quiet
    <3> QED
      BY <1>3, <2>5, <3>1 DEF SendersInv
  <2>6. Sending(msg[s], s)'
    BY <1>3, <1>4 DEF Sending
  <2>7. Working => getId < setId
    BY DEF IdsInv
  <2>8. SenderOK(s)'
    BY <1>1, <1>2, <1>3, <1>4, <2>1, <2>2, <2>4, <2>6, <2>7 DEF SenderOK, Working
  <2>9. ASSUME NEW t \in Senders \ {s} PROVE SenderOK(t)'
    <3>1. SenderOK(t) /\ Quiet(t)' = Quiet(t) /\ Sending(msg[t], t)' = Sending(msg[t], t)
          /\ Sending(data[at[t]], t)' = Sending(data[at[t]], t)
      BY <1>3 DEF SendersInv, Quiet, Sending
    <3>2. ~Quiet(t) => at[t] < setId + 1
      BY <1>2, <2>3 DEF TypeOK, Places
    <3> QED
      BY <1>2, <1>3, <2>4, <3>1, <3>2 DEF SenderOK
  <2> QED
    BY <2>5, <2>8, <2>9 DEF SendersInv
<1>10. RunsInv'
  BY <1>1, <1>3 DEF RunsInv, TypeOK, Numbers
<1> QED
  BY <1>3, <1>5, <1>6, <1>7, <1>8, <1>9, <1>10

(* A step that moves no id, starts no send and runs nothing. *)
LEMMA IdsKept ==
  ASSUME RoomyOrderly, UNCHANGED <<setId, getId, sends, server, service, reply, astray, ran>>
  PROVE  IdsInv' /\ RunsInv' /\ (server = "mapped" => service = "none")' /\ Working' = Working
BY DEF RoomyOrderly, IdsInv, RunsInv, Working, Sent

(* What is known of the sender s that takes a step inside its send. *)
LEMMA Inside ==
  ASSUME RoomyOrderly, NEW s \in Senders, ~Quiet(s)
  PROVE  /\ SenderOK(s) /\ at[s] \in Places /\ at[s] < setId /\ sends[s] \in Numbers
         /\ Sending(msg[s], s) /\ msg[s] \in Message
         /\ \A t \in Senders \ {s} : ~Quiet(t) => at[t] # at[s]
BY DEF RoomyOrderly, SendersInv, SenderOK, TypeOK, Sending

(* The message is copied into the command.                                 *)
LEMMA RoomyFill ==
  ASSUME Roomy, RoomyOrderly, NEW s \in Senders, Fill(s)
  PROVE  RoomyOrderly'
<1> USE DEF RoomyOrderly
<1>0. PICK k \in Places : k = at[s]
  BY DEF TypeOK
<1>1. pc[s] = "fill" /\ ~Quiet(s) /\ ~Quiet(s)'
  BY DEF Fill, Quiet, Goto, TypeOK
<1>2. /\ k \in Places /\ k < setId /\ sends[s] \in Numbers /\ Sending(msg[s], s) /\ msg[s] \in Message
      /\ status[k] = 0 /\ ~msg[s].done /\ ran[s][sends[s]] = 0
      /\ k >= getId /\ (Working => k # getId) /\ data[k] = NoMsg
      /\ \A t \in Senders \ {s} : ~Quiet(t) => at[t] # k
  BY <1>0, <1>1, Inside DEF SenderOK
<1>3. /\ pc'[s] = "publish" /\ \A t \in Senders \ {s} : pc'[t] = pc[t]
      /\ data'[k] = msg[s] /\ \A j \in Places \ {k} : data'[j] = data[j]
      /\ UNCHANGED <<setId, getId, status, at, msg, sends, server, service, reply, astray, ran>>
  BY <1>0, <1>2 DEF Fill, Goto, TypeOK, host
<1>4. TypeOK'
  BY <1>2 DEF Fill, Goto, TypeOK, host
<1>5. IdsInv' /\ RunsInv' /\ (server = "mapped" => service = "none")' /\ Working' = Working
  BY <1>3, IdsKept
<1>6. PlacesInv' /\ ServiceInv'
  <2>1. ASSUME NEW j \in Places PROVE PlaceOK(j)'
    <3>1. CASE j = k
      BY <1>2, <1>3, <3>1 DEF PlaceOK, Places, Roomy, TypeOK
    <3>2. CASE j # k
      BY <1>3, <3>2 DEF PlacesInv, PlaceOK
    <3> QED
      BY <3>1, <3>2
  <2>2. Working => getId \in Places /\ getId # k
    BY <1>2, Fresh DEF IdsInv
  <2>3. ServiceInv'
    BY <1>3, <2>2 DEF ServiceInv, Working
  <2> QED
    BY <1>3, <2>1, <2>3 DEF PlacesInv, Places
<1>7. MessagesInv'
  <2>1. msg[s].from = s /\ msg[s].num = sends[s]
    BY <1>2 DEF Sending
  <2>2. ASSUME NEW j \in Places \ {k}
        PROVE  /\ MessageOK(j)' /\ data'[j] = data[j]
               /\ data[j] # NoMsg => data[j].from # s \/ data[j].num # sends[s]
    <3>1. MessageOK(j)
      BY DEF MessagesInv
    <3>2. data[j] # NoMsg => data[j].from # s \/ data[j].num # sends[s]
      BY <1>1, <3>1 DEF MessageOK
    <3>3. data[j] # NoMsg => data[j].from \in Senders
      BY DEF TypeOK, Message
    <3>4. Unrun(j)' = Unrun(j)
      BY <1>3 DEF Unrun
    <3> QED
      BY <1>3, <3>1, <3>2, <3>3, <3>4 DEF MessageOK, Quiet
  <2>3. MessageOK(k)'
    BY <1>0, <1>1, <1>2, <1>3, <2>1 DEF MessageOK, Numbers
  <2>4. \A i, j \in Places : data'[i] # NoMsg /\ data'[j] # NoMsg /\ i # j =>
           data'[i].from # data'[j].from \/ data'[i].num # data'[j].num
    <3>1. data'[k].from = s /\ data'[k].num = sends[s]
      BY <1>3, <2>1
    <3> QED
      BY <2>2, <3>1 DEF MessagesInv
  <2> QED
    BY <1>3, <2>2, <2>3, <2>4 DEF MessagesInv, Places
<1>8. SendersInv'
  <2>1. SenderOK(s)'
    <3>1. Sending(msg[s], s)'
      BY <1>2, <1>3 DEF Sending
    <3> QED
      BY <1>0, <1>2, <1>3, <1>5, <3>1 DEF SenderOK
  <2>2. ASSUME NEW t \in Senders \ {s} PROVE SenderOK(t)'
    <3>1. SenderOK(t) /\ Quiet(t)' = Quiet(t) /\ Sending(msg[t], t)' = Sending(msg[t], t)
      BY <1>3 DEF SendersInv, Quiet, Sending
    <3>2. ~Quiet(t) => data'[at[t]] = data[at[t]]
      BY <1>2, <1>3 DEF TypeOK
    <3> QED
      BY <1>3, <1>5, <3>1, <3>2 DEF SenderOK, Sending
  <2>3. \A t \in Senders : Quiet(t)' <=> Quiet(t)
    BY <1>1, <1>3 DEF Quiet
  <2> QED
    BY <1>3, <2>1, <2>2, <2>3 DEF SendersInv
<1> QED
  BY <1>4, <1>5, <1>6, <1>7, <1>8

(* Senders that give up leave the others and the map as they are. *)
LEMMA RoomyGone ==
  ASSUME RoomyOrderly, \A t \in Senders : pc'[t] = pc[t] \/ pc'[t] = "gone",
         pc' \in [Senders -> {"idle", "fill", "publish", "wait", "copy", "release", "gone"}],
         UNCHANGED <<at, msg, sends, setId>>
  PROVE  /\ \A s, t \in Senders : ~Quiet(s)' /\ ~Quiet(t)' /\ at'[s] = at'[t] => s = t
         /\ \A t \in Senders : ~Quiet(t)' => ~Quiet(t) /\ pc'[t] = pc[t]
BY DEF RoomyOrderly, SendersInv, Quiet

(* The message does not fit, the call fails.                               *)
LEMMA RoomyTooLong ==
  ASSUME Roomy, RoomyOrderly, NEW s \in Senders, TooLong(s)
  PROVE  RoomyOrderly'
<1> USE DEF RoomyOrderly
<1>1. /\ UNCHANGED <<setId, getId, status, data, at, msg, sends, server, service, reply, astray, ran>>
      /\ \A t \in Senders : pc'[t] = pc[t] \/ pc'[t] = "gone"
      /\ pc' \in [Senders -> {"idle", "fill", "publish", "wait", "copy", "release", "gone"}]
  BY DEF TooLong, map, host, TypeOK
<1>2. IdsInv' /\ RunsInv' /\ (server = "mapped" => service = "none")' /\ Working' = Working
  BY <1>1, IdsKept
<1>3. TypeOK' /\ PlacesInv' /\ ServiceInv'
  BY <1>1 DEF TypeOK, PlacesInv, PlaceOK, ServiceInv
<1>4. /\ \A t, u \in Senders : ~Quiet(t)' /\ ~Quiet(u)' /\ at'[t] = at'[u] => t = u
      /\ \A t \in Senders : ~Quiet(t)' => ~Quiet(t) /\ pc'[t] = pc[t]
  BY <1>1, RoomyGone
<1>5. MessagesInv'
  <2>1. ASSUME NEW j \in Places PROVE MessageOK(j)'
    <3>1. data[j] # NoMsg => data[j].from \in Senders
      BY DEF TypeOK, Message
    <3> QED
      BY <1>1, <1>4, <3>1 DEF MessagesInv, MessageOK, Unrun
  <2> QED
    BY <1>1, <2>1 DEF MessagesInv
<1>6. SendersInv'
  <2>1. ASSUME NEW t \in Senders PROVE SenderOK(t)'
    BY <1>1, <1>2, <1>4 DEF SendersInv, SenderOK, Sending
  <2> QED
    BY <1>4, <2>1 DEF SendersInv
<1> QED
  BY <1>2, <1>3, <1>5, <1>6

(* A sender moves on and gives its command a status. *)
LEMMA RoomyStatus ==
  ASSUME Roomy, RoomyOrderly, NEW s \in Senders, ~Quiet(s), NEW k \in Places, k = at[s],
         NEW v \in {0, 2, 4, 5}, status' = [status EXCEPT ![k] = v],
         NEW p \in {"idle", "wait", "copy"}, pc' = [pc EXCEPT ![s] = p],
         UNCHANGED <<setId, getId, data, at, msg, sends, server, service, reply, astray, ran>>,
         v = 2 => k >= getId /\ (Working => k # getId),
         status[k] # 3, data[k] # NoMsg, SenderOK(s)'
  PROVE  RoomyOrderly'
<1> USE DEF RoomyOrderly
<1>1. /\ pc'[s] = p /\ \A t \in Senders \ {s} : pc'[t] = pc[t]
      /\ status'[k] = v /\ \A j \in Places \ {k} : status'[j] = status[j]
      /\ \A t \in Senders \ {s} : ~Quiet(t) => at[t] # k
      /\ \A t \in Senders : ~Quiet(t)' => ~Quiet(t)
      /\ k < setId
  BY Inside DEF TypeOK, Quiet
<1>2. TypeOK'
  BY DEF TypeOK
<1>3. IdsInv' /\ RunsInv' /\ (server = "mapped" => service = "none")' /\ Working' = Working
  BY IdsKept
<1>4. PlacesInv'
  <2>1. ASSUME NEW j \in Places PROVE PlaceOK(j)'
    <3>1. CASE j = k
      BY <1>1, <3>1 DEF PlaceOK, Places, TypeOK
    <3>2. CASE j # k
      BY <1>1, <3>2 DEF PlacesInv, PlaceOK
    <3> QED
      BY <3>1, <3>2
  <2> QED
    BY <2>1 DEF PlacesInv
<1>5. ServiceInv'
  <2>1. Working => getId \in Places
    BY Fresh DEF IdsInv
  <2>2. service \in {"claimed", "run", "answer", "store"} => status'[getId] = 3
    BY <1>1, <2>1 DEF ServiceInv, Working
  <2>3. service = "advance" => status'[getId] \in {0, 4, 5}
    BY <1>1, <2>1 DEF ServiceInv, Working
  <2>4. service \in {"none", "poll", "try"} => \A j \in Places : status'[j] # 3
    BY <1>1 DEF ServiceInv
  <2> QED
    BY <2>2, <2>3, <2>4 DEF ServiceInv
<1>6. MessagesInv'
  <2>1. ASSUME NEW j \in Places PROVE MessageOK(j)'
    <3>1. data[j] # NoMsg => data[j].from \in Senders
      BY DEF TypeOK, Message
    <3>2. \A t \in Senders : ~Quiet(t)' => ~Quiet(t) /\ (pc[t] # "fill" => pc'[t] # "fill")
      BY <1>1
    <3> QED
      BY <3>1, <3>2 DEF MessagesInv, MessageOK, Unrun
  <2> QED
    BY <2>1 DEF MessagesInv
<1>7. SendersInv'
  <2>1. ASSUME NEW t \in Senders \ {s} PROVE SenderOK(t)'
    <3>1. SenderOK(t) /\ Quiet(t)' = Quiet(t) /\ Sending(msg[t], t)' = Sending(msg[t], t)
      BY <1>1 DEF SendersInv, Quiet, Sending
    <3>2. ~Quiet(t) => status'[at[t]] = status[at[t]]
      BY <1>1 DEF TypeOK
    <3> QED
      BY <1>1, <1>3, <3>1, <3>2 DEF SenderOK, Sending
  <2> QED
    BY <1>1, <2>1 DEF SendersInv
<1> QED
  BY <1>2, <1>3, <1>4, <1>5, <1>6, <1>7

(* The command is handed to the service thread.                            *)
LEMMA RoomyPublish ==
  ASSUME Roomy, RoomyOrderly, NEW s \in Senders, Publish(s)
  PROVE  RoomyOrderly'
<1>1. pc[s] = "publish" /\ ~Quiet(s)
  BY DEF Publish, Quiet
<1>2. PICK k \in Places : k = at[s]
  BY DEF RoomyOrderly, TypeOK
<1>3. /\ SenderOK(s) /\ data[k] = msg[s] /\ msg[s] \in Message /\ status[k] = 0
      /\ k >= getId /\ (Working => k # getId) /\ data[k] # NoMsg
  BY <1>1, <1>2, Inside DEF SenderOK, Roomy
<1>4. PICK p \in {"idle", "wait"} : p = IF msg[s].wait THEN "wait" ELSE "idle"
  OBVIOUS
<1>5. /\ status' = [status EXCEPT ![k] = 2] /\ pc' = [pc EXCEPT ![s] = p]
      /\ UNCHANGED <<setId, getId, data, at, msg, sends, server, service, reply, astray, ran>>
  BY <1>2, <1>4 DEF Publish, Goto, host
<1>6. SenderOK(s)'
  <2>1. pc'[s] = p /\ status'[k] = 2
    BY <1>5 DEF RoomyOrderly, TypeOK
  <2>2. CASE p = "idle"
    BY <2>1, <2>2 DEF SenderOK, Quiet
  <2>3. CASE p = "wait"
    <3>1. msg[s].wait
      BY <1>4, <2>3
    <3> QED
      BY <1>1, <1>2, <1>3, <1>5, <2>1, <2>3, <3>1 DEF SenderOK, Sending
  <2> QED
    BY <2>2, <2>3
<1>7. PICK v \in {0, 2, 4, 5} : v = 2
  OBVIOUS
<1>8. status' = [status EXCEPT ![k] = v] /\ status[k] # 3 /\ p \in {"idle", "wait", "copy"}
      /\ (v = 2 => k >= getId /\ (Working => k # getId))
  BY <1>3, <1>5, <1>7
<1> QED
  BY <1>1, <1>2, <1>3, <1>5, <1>6, <1>8, RoomyStatus

(* The sender sees that its message has run.                               *)
LEMMA RoomySeeReply ==
  ASSUME Roomy, RoomyOrderly, NEW s \in Senders, SeeReply(s)
  PROVE  RoomyOrderly'
<1>1. pc[s] = "wait" /\ ~Quiet(s)
  BY DEF SeeReply, Quiet
<1>2. PICK k \in Places : k = at[s]
  BY DEF RoomyOrderly, TypeOK
<1>3. SenderOK(s) /\ status[k] = 4 /\ data[k] \in Message /\ data[k] # NoMsg /\ data[k].done
  BY <1>1, <1>2, Inside DEF SenderOK, Roomy, Sending, SeeReply
<1>4. PICK v \in {4, 5} : v = IF DeviceBus THEN 4 ELSE 5
  OBVIOUS
<1>5. /\ status' = [status EXCEPT ![k] = v] /\ pc' = [pc EXCEPT ![s] = "copy"]
      /\ UNCHANGED <<setId, getId, data, at, msg, sends, server, service, reply, astray, ran>>
  <2>1. [status EXCEPT ![k] = 4] = status
    BY <1>3 DEF RoomyOrderly, TypeOK
  <2> QED
    BY <1>2, <1>4, <2>1 DEF SeeReply, Goto, host
<1>6. SenderOK(s)'
  <2>1. pc'[s] = "copy" /\ status'[k] = v
    BY <1>5 DEF RoomyOrderly, TypeOK
  <2> QED
    BY <1>1, <1>2, <1>3, <1>5, <2>1 DEF SenderOK, Sending
<1>7. PICK p \in {"idle", "wait", "copy"} : p = "copy"
  OBVIOUS
<1>8. /\ pc' = [pc EXCEPT ![s] = p] /\ v \in {0, 2, 4, 5} /\ status[k] # 3
      /\ (v = 2 => k >= getId /\ (Working => k # getId))
  BY <1>3, <1>5, <1>7
<1> QED
  BY <1>1, <1>2, <1>3, <1>5, <1>6, <1>8, RoomyStatus

(* The sender gives the command back.                                      *)
LEMMA RoomyRelease ==
  ASSUME Roomy, RoomyOrderly, NEW s \in Senders, Release(s)
  PROVE  RoomyOrderly'
<1>1. pc[s] = "release" /\ ~Quiet(s)
  BY DEF Release, Quiet
<1>2. PICK k \in Places : k = at[s]
  BY DEF RoomyOrderly, TypeOK
<1>3. SenderOK(s) /\ status[k] \in {4, 5} /\ data[k] # NoMsg
  BY <1>1, <1>2, Inside DEF SenderOK, Roomy, Sending
<1>5. /\ status' = [status EXCEPT ![k] = 0] /\ pc' = [pc EXCEPT ![s] = "idle"]
      /\ UNCHANGED <<setId, getId, data, at, msg, sends, server, service, reply, astray, ran>>
  BY <1>2 DEF Release, Goto, host
<1>6. SenderOK(s)'
  BY <1>5 DEF SenderOK, Quiet, RoomyOrderly, TypeOK
<1>7. PICK p \in {"idle", "wait", "copy"} : p = "idle"
  OBVIOUS
<1>8. PICK v \in {0, 2, 4, 5} : v = 0
  OBVIOUS
<1>9. /\ status' = [status EXCEPT ![k] = v] /\ pc' = [pc EXCEPT ![s] = p] /\ status[k] # 3
      /\ (v = 2 => k >= getId /\ (Working => k # getId))
  BY <1>3, <1>5, <1>7, <1>8
<1> QED
  BY <1>1, <1>2, <1>3, <1>5, <1>6, <1>9, RoomyStatus

(* The sender copies the results back.                                     *)
LEMMA RoomyCopyBack ==
  ASSUME Roomy, RoomyOrderly, NEW s \in Senders, CopyBack(s)
  PROVE  RoomyOrderly'
<1> USE DEF RoomyOrderly
<1>1. pc[s] = "copy" /\ ~Quiet(s)
  BY DEF CopyBack, Quiet
<1>2. SenderOK(s) /\ data[at[s]] \in Message /\ at[s] \in Places
  BY <1>1, Inside DEF SenderOK, Sending
<1>3. /\ pc'[s] = "release" /\ msg'[s] = data[at[s]]
      /\ \A t \in Senders \ {s} : pc'[t] = pc[t] /\ msg'[t] = msg[t]
      /\ UNCHANGED <<setId, getId, status, data, at, sends, server, service, reply, astray, ran>>
  BY DEF CopyBack, Goto, map, host, TypeOK
<1>4. TypeOK'
  BY <1>2 DEF CopyBack, Goto, map, host, TypeOK
<1>5. IdsInv' /\ RunsInv' /\ (server = "mapped" => service = "none")' /\ Working' = Working
  BY <1>3, IdsKept
<1>6. PlacesInv' /\ ServiceInv'
  BY <1>3 DEF PlacesInv, PlaceOK, ServiceInv
<1>7. MessagesInv'
  <2>1. ASSUME NEW j \in Places PROVE MessageOK(j)'
    <3>1. data[j] # NoMsg => data[j].from \in Senders
      BY DEF TypeOK, Message
    <3> QED
      BY <1>1, <1>3, <3>1 DEF MessagesInv, MessageOK, Unrun, Quiet
  <2> QED
    BY <1>3, <2>1 DEF MessagesInv
<1>8. SendersInv'
  <2>1. SenderOK(s)'
    BY <1>1, <1>2, <1>3 DEF SenderOK, Sending
  <2>2. ASSUME NEW t \in Senders \ {s} PROVE SenderOK(t)'
    BY <1>3, <1>5 DEF SendersInv, SenderOK, Sending, Quiet
  <2>3. \A t \in Senders : ~Quiet(t)' => ~Quiet(t)
    BY <1>1, <1>3 DEF Quiet
  <2> QED
    BY <1>3, <2>1, <2>2, <2>3 DEF SendersInv
<1> QED
  BY <1>4, <1>5, <1>6, <1>7, <1>8

(* The steps of the server, and the service thread in its loop without a   *)
(* command: they move server and service alone.                            *)
LEMMA RoomyServiceMoves ==
  ASSUME Roomy, RoomyOrderly, UNCHANGED <<map, senders, reply, astray, ran>>,
         server' \in {"mapped", "spawned", "up", "closed", "down"},
         service' \in {"none", "poll", "try", "passed", "run", "stopped", "faulted"} \cup {service},
         server' = "mapped" => service' = "none",
         service' = "run" => service = "claimed" \/ service = "run",
         service' \in {"none", "poll", "try", "passed"} => service \in {"none", "poll", "try", "passed"}
  PROVE  RoomyOrderly'
<1> USE DEF RoomyOrderly
<1>1. /\ UNCHANGED <<setId, getId, status, data, pc, at, msg, sends, reply, astray, ran>>
      /\ Working' => Working
      /\ \A k \in Places : Unrun(k)' => Unrun(k)
  BY DEF map, senders, Working, Unrun
<1>2. TypeOK'
  BY <1>1 DEF TypeOK
<1>3. IdsInv' /\ RunsInv' /\ PlacesInv'
  BY <1>1 DEF IdsInv, RunsInv, PlacesInv, PlaceOK, Sent
<1>4. ServiceInv'
  BY <1>1 DEF ServiceInv
<1>5. MessagesInv'
  BY <1>1 DEF MessagesInv, MessageOK, Quiet
<1>6. SendersInv'
  <2>1. ASSUME NEW t \in Senders PROVE SenderOK(t)'
    BY <1>1 DEF SendersInv, SenderOK, Sending, Quiet
  <2> QED
    BY <1>1, <2>1 DEF SendersInv, Quiet
<1> QED
  BY <1>2, <1>3, <1>4, <1>5, <1>6

(* The command the service thread works on. *)
LEMMA Worked ==
  ASSUME Roomy, RoomyOrderly, Working
  PROVE  \E k \in Places : k = getId /\ Cur = k /\ k < setId /\ Bump(getId) = k + 1
BY Fresh DEF RoomyOrderly, IdsInv

(* The service thread takes a published command.                           *)
LEMMA RoomyClaim ==
  ASSUME Roomy, RoomyOrderly, Claim
  PROVE  RoomyOrderly'
<1> USE DEF RoomyOrderly
<1>1. /\ Slots \in Nat \ {0} /\ setId \in Nat /\ getId \in Nat /\ getId <= setId /\ setId <= Slots
  BY Fresh, SentinelAssumption
<1>2. getId < setId
  <2>1. CASE getId = Slots
    <3>1. PICK z \in Places : z = 0
      BY <1>1 DEF Places
    <3>2. Slots % Slots = 0
      BY <1>1
    <3>3. Cur = z /\ z < getId
      BY <1>1, <2>1, <3>1, <3>2 DEF Cur, PlaceOf
    <3>4. status[z] # 2
      BY <3>3 DEF PlacesInv, PlaceOK
    <3> QED
      BY <3>3, <3>4 DEF Claim
  <2>2. CASE getId < Slots
    <3>1. PICK k \in Places : k = getId
      BY <1>1, <2>2 DEF Places
    <3>2. Cur = k
      <4>1. k % Slots = k
        BY <1>1, <2>2, <3>1
      <4> QED
        BY <3>1, <4>1 DEF Cur, PlaceOf
    <3>3. status[k] = 2
      BY <3>2 DEF Claim
    <3>4. ~(k >= setId)
      BY <3>3 DEF PlacesInv, PlaceOK
    <3> QED
      BY <1>1, <3>1, <3>4
  <2> QED
    BY <1>1, <2>1, <2>2
<1>3. PICK k \in Places : k = getId /\ Cur = k
  BY <1>2, Fresh
<1>4. /\ service = "try" /\ service' = "claimed" /\ status[k] = 2 /\ status'[k] = 3
      /\ \A j \in Places \ {k} : status'[j] = status[j]
      /\ UNCHANGED <<setId, getId, data, pc, at, msg, sends, server, reply, astray, ran>>
  BY <1>3 DEF Claim, senders, TypeOK
<1>5. TypeOK'
  BY <1>3 DEF Claim, senders, TypeOK
<1>6. IdsInv' /\ RunsInv' /\ (server = "mapped" => service = "none")'
  BY <1>2, <1>4 DEF IdsInv, RunsInv, Sent
<1>7. PlacesInv' /\ ServiceInv'
  <2>1. ASSUME NEW j \in Places PROVE PlaceOK(j)'
    <3>1. CASE j = k
      BY <1>2, <1>3, <1>4, <3>1 DEF PlacesInv, PlaceOK
    <3>2. CASE j # k
      BY <1>4, <3>2 DEF PlacesInv, PlaceOK, ServiceInv
    <3> QED
      BY <3>1, <3>2
  <2> QED
    BY <1>3, <1>4, <2>1 DEF PlacesInv, ServiceInv
<1>8. MessagesInv'
  <2>1. \A j \in Places : Unrun(j)' => Unrun(j)
    BY <1>4 DEF Unrun
  <2>2. \A j \in Places : MessageOK(j)'
    BY <1>4, <2>1 DEF MessagesInv, MessageOK, Quiet
  <2> QED
    BY <1>4, <2>2 DEF MessagesInv
<1>9. SendersInv'
  <2>1. ASSUME NEW t \in Senders PROVE SenderOK(t)'
    <3>1. SenderOK(t) /\ Quiet(t)' = Quiet(t) /\ at[t] \in Places
          /\ Sending(msg[t], t)' = Sending(msg[t], t)
      BY <1>4 DEF SendersInv, Quiet, Sending, TypeOK
    <3>2. CASE at[t] = k
      BY <1>3, <1>4, <3>1, <3>2 DEF SenderOK, Sending, Working
    <3>3. CASE at[t] # k
      BY <1>3, <1>4, <3>1, <3>3 DEF SenderOK, Sending, Working
    <3> QED
      BY <3>2, <3>3
  <2> QED
    BY <1>4, <2>1 DEF SendersInv, Quiet
<1> QED
  BY <1>5, <1>6, <1>7, <1>8, <1>9

(* The message at the place the service thread works on, which is run now. *)
LEMMA RunCounts ==
  ASSUME Roomy, RoomyOrderly, service = "run", CountRun
  PROVE  \E k \in Places, s \in Senders, n \in Numbers :
           /\ k = getId /\ Cur = k /\ data[k] \in Message /\ data[k] # NoMsg
           /\ data[k].from = s /\ data[k].num = n /\ n <= sends[s] /\ status[k] = 3
           /\ ran[s][n] = 0 /\ ran'[s][n] = 1 /\ ran' \in [Senders -> [Numbers -> Nat]]
           /\ \A t \in Senders, i \in Numbers : t # s \/ i # n => ran'[t][i] = ran[t][i]
           /\ \A t \in Senders : pc[t] \in {"fill", "publish"} => t # s \/ sends[t] # n
<1> USE DEF RoomyOrderly
<1>1. PICK k \in Places : k = getId /\ Cur = k
  BY Worked DEF Working
<1>2. status[k] = 3 /\ data[k] # NoMsg /\ data[k] \in Message
  BY <1>1 DEF ServiceInv, PlacesInv, PlaceOK, TypeOK
<1>3. PICK s \in Senders : s = data[k].from
  BY <1>2 DEF Message
<1>4. MessageOK(k)
  BY DEF MessagesInv
<1>5. PICK n \in Numbers : n = data[k].num
  BY <1>2, <1>4 DEF MessageOK
<1>6. n <= sends[s] /\ ran[s][n] = 0
  BY <1>1, <1>2, <1>3, <1>4, <1>5 DEF MessageOK, Unrun
<1>7. ran' = [ran EXCEPT ![s][n] = ran[s][n] + 1]
  BY <1>1, <1>3, <1>5 DEF CountRun
<1>8. /\ ran'[s][n] = 1 /\ ran' \in [Senders -> [Numbers -> Nat]]
      /\ \A t \in Senders, i \in Numbers : t # s \/ i # n => ran'[t][i] = ran[t][i]
  BY <1>6, <1>7 DEF TypeOK
<1>9. ASSUME NEW t \in Senders, pc[t] \in {"fill", "publish"} PROVE t # s \/ sends[t] # n
  <2>1. ~Quiet(t) /\ SenderOK(t) /\ at[t] # k
    <3>1. ~Quiet(t)
      BY <1>9 DEF Quiet
    <3> QED
      BY <1>1, <1>9, <3>1, Inside DEF SenderOK, Working
  <2> QED
    BY <1>2, <1>3, <1>4, <1>5, <2>1 DEF MessageOK
<1> QED
  BY <1>1, <1>2, <1>3, <1>5, <1>6, <1>8, <1>9

(* It runs the message.                                                    *)
LEMMA RoomyRun ==
  ASSUME Roomy, RoomyOrderly, Run
  PROVE  RoomyOrderly'
<1> USE DEF RoomyOrderly
<1>0. service = "run" /\ CountRun /\ Working
  BY DEF Run, Working
<1>1. PICK k \in Places, s \in Senders, n \in Numbers :
        /\ k = getId /\ Cur = k /\ data[k] \in Message /\ data[k] # NoMsg
        /\ data[k].from = s /\ data[k].num = n /\ n <= sends[s] /\ status[k] = 3
        /\ ran[s][n] = 0 /\ ran'[s][n] = 1 /\ ran' \in [Senders -> [Numbers -> Nat]]
        /\ \A t \in Senders, i \in Numbers : t # s \/ i # n => ran'[t][i] = ran[t][i]
        /\ \A t \in Senders : pc[t] \in {"fill", "publish"} => t # s \/ sends[t] # n
  BY <1>0, RunCounts
<1>2. /\ data' = [data EXCEPT ![k].done = TRUE] /\ service' = "answer"
      /\ UNCHANGED <<setId, getId, status, pc, at, msg, sends, server, reply, astray>>
  BY <1>1 DEF Run, senders
<1>3. /\ data'[k] \in Message /\ data'[k] # NoMsg /\ data'[k].from = s /\ data'[k].num = n
      /\ data'[k].done /\ data'[k].wait = data[k].wait
      /\ \A j \in Places \ {k} : data'[j] = data[j]
  <2>1. data'[k] = [data[k] EXCEPT !.done = TRUE] /\ \A j \in Places \ {k} : data'[j] = data[j]
    BY <1>2 DEF TypeOK
  <2>2. /\ data'[k] \in Message /\ data'[k].from = s /\ data'[k].num = n
        /\ data'[k].done /\ data'[k].wait = data[k].wait
    BY <1>1, <2>1 DEF Message
  <2> QED
    BY <2>1, <2>2 DEF Roomy
<1>4. TypeOK'
  BY <1>1, <1>2, <1>3 DEF TypeOK
<1>5. IdsInv' /\ (server = "mapped" => service = "none")'
  BY <1>0, <1>2 DEF IdsInv, Sent, Working
<1>6. RunsInv'
  <2>1. ASSUME NEW t \in Senders, NEW i \in Numbers
        PROVE  ran'[t][i] <= 1 /\ (i > sends'[t] => ran'[t][i] = 0)
    <3>1. sends'[t] = sends[t] /\ sends[t] \in Nat /\ i \in Nat
          /\ ran[t][i] <= 1 /\ (i > sends[t] => ran[t][i] = 0)
      BY <1>2 DEF RunsInv, TypeOK, Numbers
    <3>2. CASE t = s /\ i = n
      BY <1>1, <3>1, <3>2
    <3>3. CASE t # s \/ i # n
      BY <1>1, <3>1, <3>3
    <3> QED
      BY <3>2, <3>3
  <2> QED
    BY <2>1 DEF RunsInv
<1>7. PlacesInv' /\ ServiceInv'
  <2>1. ASSUME NEW j \in Places PROVE PlaceOK(j)'
    <3>1. CASE j = k
      BY <1>1, <1>2, <1>3, <3>1 DEF PlacesInv, PlaceOK
    <3>2. CASE j # k
      BY <1>2, <1>3, <3>2 DEF PlacesInv, PlaceOK
    <3> QED
      BY <3>1, <3>2
  <2> QED
    BY <1>1, <1>2, <1>3, <2>1 DEF PlacesInv, ServiceInv
<1>8. MessagesInv'
  <2>1. MessageOK(k)'
    <3>1. MessageOK(k) /\ Quiet(s)' = Quiet(s) /\ ~Unrun(k)'
      <4>1. ~Unrun(k)'
        BY <1>1, <1>2 DEF Unrun, Places, TypeOK
      <4> QED
        BY <1>2, <4>1 DEF MessagesInv, Quiet
    <3>2. n \in Numbers /\ n <= sends[s] /\ (n = sends[s] /\ ~Quiet(s) => at[s] = k /\ pc[s] # "fill")
      BY <1>1, <3>1 DEF MessageOK
    <3>3. data'[k].from = s /\ data'[k].num = n /\ ran'[s][n] = 1
      BY <1>1, <1>3
    <3>4. n = sends'[s] /\ ~Quiet(s)' => at'[s] = k /\ pc'[s] # "fill"
      BY <1>2, <3>1, <3>2
    <3>5. n <= sends'[s]
      BY <1>2, <3>2
    <3> QED
      BY <3>1, <3>2, <3>3, <3>4, <3>5 DEF MessageOK
  <2>2. ASSUME NEW j \in Places \ {k} PROVE MessageOK(j)'
    <3>1. CASE data[j] = NoMsg
      BY <1>3, <3>1 DEF MessageOK
    <3>2. CASE data[j] # NoMsg
      <4>1. /\ MessageOK(j) /\ data[j].from \in Senders /\ data[j].num \in Numbers
            /\ data[j].from # s \/ data[j].num # n
        BY <1>1, <3>2 DEF MessagesInv, MessageOK, TypeOK, Message
      <4>2. ran'[data[j].from][data[j].num] = ran[data[j].from][data[j].num]
        BY <1>1, <4>1
      <4>3. Unrun(j)' => Unrun(j)
        BY <1>2 DEF Unrun
      <4> QED
        BY <1>2, <1>3, <4>1, <4>2, <4>3 DEF MessageOK, Quiet
    <3> QED
      BY <3>1, <3>2
  <2>3. \A i, j \in Places : data'[i] # NoMsg /\ data'[j] # NoMsg /\ i # j =>
           data'[i].from # data'[j].from \/ data'[i].num # data'[j].num
    <3>1. \A j \in Places : /\ data'[j] # NoMsg => data[j] # NoMsg
                            /\ data'[j].from = data[j].from /\ data'[j].num = data[j].num
      BY <1>1, <1>3
    <3> QED
      BY <3>1 DEF MessagesInv
  <2> QED
    BY <2>1, <2>2, <2>3 DEF MessagesInv
<1>9. SendersInv'
  <2>1. ASSUME NEW t \in Senders PROVE SenderOK(t)'
    <3>1. SenderOK(t) /\ Quiet(t)' = Quiet(t) /\ at[t] \in Places
          /\ Sending(msg[t], t)' = Sending(msg[t], t)
      BY <1>2 DEF SendersInv, Quiet, Sending, TypeOK
    <3>2. pc[t] \in {"fill", "publish"} /\ ~Quiet(t) => ran'[t][sends[t]] = ran[t][sends[t]]
      BY <1>1, <3>1 DEF SenderOK
    <3>3. CASE at[t] = k
      BY <1>0, <1>1, <1>2, <1>3, <3>1, <3>2, <3>3 DEF SenderOK, Sending, Working
    <3>4. CASE at[t] # k
      BY <1>0, <1>1, <1>2, <1>3, <3>1, <3>2, <3>4 DEF SenderOK, Sending, Working
    <3> QED
      BY <3>3, <3>4
  <2> QED
    BY <1>2, <2>1 DEF SendersInv, Quiet
<1> QED
  BY <1>4, <1>5, <1>6, <1>7, <1>8, <1>9

(* It runs a message that ends it.                                         *)
LEMMA RoomyRunExits ==
  ASSUME Roomy, RoomyOrderly, RunExits
  PROVE  RoomyOrderly'
<1> USE DEF RoomyOrderly
<1>0. service = "run" /\ CountRun /\ Working
  BY DEF RunExits, Working
<1>1. PICK k \in Places, s \in Senders, n \in Numbers :
        /\ k = getId /\ Cur = k /\ data[k] \in Message /\ data[k] # NoMsg
        /\ data[k].from = s /\ data[k].num = n /\ n <= sends[s] /\ status[k] = 3
        /\ ran[s][n] = 0 /\ ran'[s][n] = 1 /\ ran' \in [Senders -> [Numbers -> Nat]]
        /\ \A t \in Senders, i \in Numbers : t # s \/ i # n => ran'[t][i] = ran[t][i]
        /\ \A t \in Senders : pc[t] \in {"fill", "publish"} => t # s \/ sends[t] # n
  BY <1>0, RunCounts
<1>2. /\ service' = "exited" /\ ~Working'
      /\ UNCHANGED <<setId, getId, status, data, at, msg, sends, server, reply, astray>>
      /\ pc' = IF DeviceBus THEN [t \in Senders |-> "gone"] ELSE pc
  BY DEF RunExits, map, Working
<1>3. /\ \A t \in Senders : pc'[t] = pc[t] \/ pc'[t] = "gone"
      /\ pc' \in [Senders -> {"idle", "fill", "publish", "wait", "copy", "release", "gone"}]
  BY <1>2 DEF TypeOK
<1>4. /\ \A t, u \in Senders : ~Quiet(t)' /\ ~Quiet(u)' /\ at'[t] = at'[u] => t = u
      /\ \A t \in Senders : ~Quiet(t)' => ~Quiet(t) /\ pc'[t] = pc[t]
  BY <1>2, <1>3, RoomyGone
<1>5. TypeOK'
  BY <1>1, <1>2, <1>3 DEF TypeOK
<1>6. IdsInv' /\ (server = "mapped" => service = "none")'
  BY <1>0, <1>2 DEF IdsInv, Sent
<1>7. RunsInv'
  BY <1>1, <1>2 DEF RunsInv, TypeOK, Numbers
<1>8. PlacesInv' /\ ServiceInv'
  BY <1>2 DEF PlacesInv, PlaceOK, ServiceInv
<1>9. MessagesInv'
  <2>1. ASSUME NEW j \in Places PROVE MessageOK(j)'
    <3>1. CASE data[j] = NoMsg
      BY <1>2, <3>1 DEF MessageOK
    <3>2. CASE data[j] # NoMsg
      <4>1. /\ MessageOK(j) /\ data[j].from \in Senders /\ data[j].num \in Numbers
            /\ j # k => data[j].from # s \/ data[j].num # n
        BY <1>1, <3>2 DEF MessagesInv, MessageOK, TypeOK, Message
      <4>2. j # k => ran'[data[j].from][data[j].num] = ran[data[j].from][data[j].num]
        BY <1>1, <4>1
      <4>3. (Unrun(j)' => Unrun(j)) /\ ~Unrun(k)'
        BY <1>1, <1>2 DEF Unrun, Places, TypeOK
      <4>4. ~Quiet(data[j].from)' => ~Quiet(data[j].from) /\ pc'[data[j].from] = pc[data[j].from]
        <5>1. PICK t \in Senders : t = data[j].from
          BY <4>1
        <5>2. data' = data /\ (~Quiet(t)' => ~Quiet(t) /\ pc'[t] = pc[t])
          BY <1>2, <1>4
        <5> QED
          BY <5>1, <5>2 DEF Quiet
      <4>5. CASE j = k
        BY <1>1, <1>2, <4>1, <4>3, <4>4, <4>5 DEF MessageOK
      <4>6. CASE j # k
        BY <1>2, <4>1, <4>2, <4>3, <4>4, <4>6 DEF MessageOK
      <4> QED
        BY <4>5, <4>6
    <3> QED
      BY <3>1, <3>2
  <2> QED
    BY <1>2, <2>1 DEF MessagesInv
<1>10. SendersInv'
  <2>1. ASSUME NEW t \in Senders PROVE SenderOK(t)'
    <3>1. SenderOK(t) /\ (~Quiet(t)' => ~Quiet(t) /\ pc'[t] = pc[t])
      BY <1>4 DEF SendersInv
    <3>2. pc[t] \in {"fill", "publish"} /\ ~Quiet(t) => ran'[t][sends[t]] = ran[t][sends[t]]
      BY <1>1, <3>1 DEF SenderOK
    <3> QED
      BY <1>2, <3>1, <3>2 DEF SenderOK, Sending
  <2> QED
    BY <1>4, <2>1 DEF SendersInv
<1> QED
  BY <1>5, <1>6, <1>7, <1>8, <1>9, <1>10

(* It reads whether somebody waits.                                        *)
LEMMA RoomyReadWait ==
  ASSUME Roomy, RoomyOrderly, ReadWait
  PROVE  RoomyOrderly'
<1> USE DEF RoomyOrderly
<1>1. PICK k \in Places : k = getId /\ Cur = k
  BY Worked DEF ReadWait, Working
<1>2. /\ service = "answer" /\ service' = "store" /\ reply' = data[k].wait /\ Working /\ Working'
      /\ UNCHANGED <<setId, getId, status, data, pc, at, msg, sends, server, astray, ran>>
  BY <1>1 DEF ReadWait, map, senders, Working
<1>3. status[k] = 3 /\ data[k] # NoMsg /\ data[k] \in Message
  BY <1>1, <1>2 DEF ServiceInv, PlacesInv, PlaceOK, TypeOK
<1>4. TypeOK'
  <2>1. reply' \in BOOLEAN
    BY <1>2, <1>3 DEF Message
  <2> QED
    BY <1>2, <2>1 DEF TypeOK
<1>5. IdsInv' /\ RunsInv' /\ PlacesInv' /\ (server = "mapped" => service = "none")'
  BY <1>2 DEF IdsInv, RunsInv, PlacesInv, PlaceOK, Sent
<1>6. ServiceInv'
  BY <1>1, <1>2, <1>3 DEF ServiceInv
<1>7. MessagesInv'
  BY <1>2 DEF MessagesInv, MessageOK, Unrun, Quiet
<1>8. SendersInv'
  <2>1. ASSUME NEW t \in Senders PROVE SenderOK(t)'
    BY <1>2 DEF SendersInv, SenderOK, Sending, Quiet
  <2> QED
    BY <1>2, <2>1 DEF SendersInv, Quiet
<1> QED
  BY <1>4, <1>5, <1>6, <1>7, <1>8

(* It tells so, by the status.                                             *)
LEMMA RoomyStoreStatus ==
  ASSUME Roomy, RoomyOrderly, StoreStatus
  PROVE  RoomyOrderly'
<1> USE DEF RoomyOrderly
<1>1. PICK k \in Places : k = getId /\ Cur = k /\ k < setId
  BY Worked DEF StoreStatus, Working
<1>2. /\ service = "store" /\ service' = "advance" /\ Working /\ Working'
      /\ UNCHANGED <<setId, getId, data, pc, at, msg, sends, server, reply, astray, ran>>
  BY DEF StoreStatus, senders, Working
<1>3. /\ status[k] = 3 /\ data[k] # NoMsg /\ data[k].done /\ (reply <=> data[k].wait)
  BY <1>1, <1>2 DEF ServiceInv, PlacesInv, PlaceOK
<1>4. /\ status'[k] = 4 \/ (status'[k] = 0 /\ ~reply)
      /\ \A j \in Places \ {k} : status'[j] = status[j]
      /\ status' \in [Places -> 0 .. 5]
  <2>1. PICK v \in {0, 4} : v = (IF reply THEN 4 ELSE 0) /\ (v = 0 => ~reply)
    <3>1. CASE reply
      BY <3>1
    <3>2. CASE ~reply
      BY <3>2
    <3> QED
      BY <3>1, <3>2
  <2>2. status' = [status EXCEPT ![k] = v]
    BY <1>1, <2>1 DEF StoreStatus
  <2> QED
    BY <2>1, <2>2 DEF TypeOK
<1>5. TypeOK'
  BY <1>2, <1>4 DEF TypeOK
<1>6. IdsInv' /\ RunsInv' /\ (server = "mapped" => service = "none")'
  BY <1>2 DEF IdsInv, RunsInv, Sent
<1>7. PlacesInv' /\ ServiceInv'
  <2>1. ASSUME NEW j \in Places PROVE PlaceOK(j)'
    <3>1. PlaceOK(j) /\ (j >= setId => j # k)
      BY <1>1, Fresh DEF PlacesInv, Places
    <3>2. CASE j = k
      BY <1>2, <1>3, <1>4, <3>1, <3>2 DEF PlaceOK
    <3>3. CASE j # k
      BY <1>2, <1>4, <3>1, <3>3 DEF PlaceOK
    <3> QED
      BY <3>2, <3>3
  <2> QED
    BY <1>1, <1>2, <1>4, <2>1 DEF PlacesInv, ServiceInv
<1>8. MessagesInv'
  BY <1>2 DEF MessagesInv, MessageOK, Unrun, Quiet
<1>9. SendersInv'
  <2>1. ASSUME NEW t \in Senders PROVE SenderOK(t)'
    <3>1. SenderOK(t) /\ at[t] \in Places
      BY DEF SendersInv, TypeOK
    <3>2. CASE at[t] = k
      BY <1>1, <1>2, <1>3, <1>4, <3>1, <3>2 DEF SenderOK, Sending, Working, Quiet
    <3>3. CASE at[t] # k
      BY <1>1, <1>2, <1>4, <3>1, <3>3 DEF SenderOK, Sending, Working, Quiet
    <3> QED
      BY <3>2, <3>3
  <2> QED
    BY <1>2, <2>1 DEF SendersInv, Quiet
<1> QED
  BY <1>5, <1>6, <1>7, <1>8, <1>9

(* It goes on to the next command.                                         *)
LEMMA RoomyAdvance ==
  ASSUME Roomy, RoomyOrderly, Advance
  PROVE  RoomyOrderly'
<1> USE DEF RoomyOrderly
<1>1. PICK k \in Places : k = getId /\ Cur = k /\ k < setId /\ Bump(getId) = k + 1
  BY Worked DEF Advance, Working
<1>2. /\ service = "advance" /\ service' = "poll" /\ Working /\ ~Working' /\ getId' = k + 1
      /\ UNCHANGED <<setId, status, data, pc, at, msg, sends, server, reply, astray, ran>>
  BY <1>1 DEF Advance, senders, Working
<1>3. /\ status[k] \in {0, 4, 5} /\ setId \in Nat /\ k \in Nat /\ Places \subseteq Nat
      /\ \A j \in Places : status[j] # 3
  BY <1>1, <1>2, Fresh DEF ServiceInv, PlacesInv, PlaceOK, Places
<1>4. TypeOK'
  <2>1. k + 1 \in 0 .. Ids - 1
    BY <1>1, <1>3, SentinelAssumption DEF TypeOK
  <2> QED
    BY <1>2, <2>1 DEF TypeOK
<1>5. IdsInv' /\ RunsInv' /\ (server = "mapped" => service = "none")'
  BY <1>1, <1>2, <1>3 DEF IdsInv, RunsInv, Sent
<1>6. PlacesInv' /\ ServiceInv'
  <2>1. ASSUME NEW j \in Places PROVE PlaceOK(j)'
    BY <1>1, <1>2, <1>3 DEF PlacesInv, PlaceOK
  <2> QED
    BY <1>2, <1>3, <2>1 DEF PlacesInv, ServiceInv
<1>7. MessagesInv'
  <2>1. \A j \in Places : Unrun(j)' => Unrun(j)
    BY <1>1, <1>2, <1>3 DEF Unrun
  <2> QED
    BY <1>2, <2>1 DEF MessagesInv, MessageOK, Quiet
<1>8. SendersInv'
  <2>1. ASSUME NEW t \in Senders PROVE SenderOK(t)'
    <3>1. SenderOK(t) /\ at[t] \in Places
      BY DEF SendersInv, TypeOK
    <3>2. PICK j \in Nat : j = at[t]
      BY <1>3, <3>1
    <3>3. j >= k /\ j # k => j >= k + 1
      BY <1>3
    <3> QED
      BY <1>1, <1>2, <3>1, <3>2, <3>3 DEF SenderOK, Sending, Quiet
  <2> QED
    BY <1>2, <2>1 DEF SendersInv, Quiet
<1> QED
  BY <1>4, <1>5, <1>6, <1>7, <1>8

(* Every step keeps the invariant. *)
LEMMA RoomyStep ==
  ASSUME Roomy, RoomyOrderly, [Next]_vars, ~astray'
  PROVE  RoomyOrderly'
<1>1. CASE UNCHANGED vars
  <2>1. UNCHANGED <<map, senders, reply, astray, ran, server, service>>
    BY <1>1 DEF vars, host
  <2> QED
    BY <2>1, RoomyServiceMoves DEF RoomyOrderly, TypeOK
<1>2. ASSUME NEW s \in Senders, Send(s) PROVE RoomyOrderly'
  BY <1>2, RoomyReserve, RoomyFill, RoomyTooLong, RoomyPublish, RoomySeeReply, RoomyCopyBack,
     RoomyRelease DEF Send
<1>3. CASE Server
  <2>1. UNCHANGED <<map, senders, reply, astray, ran>>
    BY <1>3 DEF Server, StartThread, StoreHandle, CloseHandle, Unmap
  <2>2. server' \in {"mapped", "spawned", "up", "closed", "down"} /\ server' # "mapped"
    BY <1>3 DEF Server, StartThread, StoreHandle, CloseHandle, Unmap
  <2>3. /\ service' \in {"none", "poll", "try", "passed", "run", "stopped", "faulted"} \cup {service}
        /\ service' = service \/ (service' = "poll" /\ service = "none")
    BY <1>3 DEF Server, StartThread, StoreHandle, CloseHandle, Unmap, RoomyOrderly
  <2> QED
    BY <2>1, <2>2, <2>3, RoomyServiceMoves
<1>4. CASE Poll \/ ClaimFails \/ Recheck \/ RecheckUnclaimed \/ Fault
  <2>1. UNCHANGED <<map, senders, reply, astray, ran>> /\ server' = server
    BY <1>4 DEF Poll, ClaimFails, Recheck, RecheckUnclaimed, Fault, RoomyOrderly, TypeOK
  <2>2. /\ service' \in {"none", "poll", "try", "passed", "run", "stopped", "faulted"} \cup {service}
        /\ service' = "run" => service = "claimed"
        /\ service' \in {"none", "poll", "try", "passed"} => service \in {"none", "poll", "try", "passed"}
        /\ service # "none" /\ service' # "none"
    BY <1>4 DEF Poll, ClaimFails, Recheck, RecheckUnclaimed, Fault
  <2> QED
    BY <2>1, <2>2, RoomyServiceMoves DEF RoomyOrderly, TypeOK
<1>5. ASSUME BadMagic PROVE FALSE
  <2>1. PICK k \in Places : k = getId /\ Cur = k
    BY <1>5, Worked DEF BadMagic, Working
  <2> QED
    BY <1>5, <2>1 DEF BadMagic, RoomyOrderly, ServiceInv, PlacesInv, PlaceOK
<1> QED
  BY <1>1, <1>2, <1>3, <1>4, <1>5, RoomyClaim, RoomyRun, RoomyRunExits, RoomyReadWait, RoomyStoreStatus,
     RoomyAdvance DEF Next, Service


(* Senders that overlap in a map with room for all their messages keep     *)
(* every part of the invariant, unless the service thread goes astray.     *)
THEOREM RoomyInvariance == Roomy => (Spec => []RoomyInv)
<1> SUFFICES ASSUME Roomy PROVE Spec => []RoomyInv
  OBVIOUS
<1>1. Init => RoomyInv
  BY RoomyInit DEF RoomyInv
<1>2. RoomyInv /\ [Next]_vars => RoomyInv'
  BY RoomyStep, AstrayStays DEF RoomyInv
<1> QED
  BY <1>1, <1>2, PTL DEF Spec

(* The service thread executes no command its sender has not published,    *)
(* however the senders' atomicAdd, memcpy and store of Status interleave.  *)
THEOREM OnlyPublished == Roomy => (Spec => []RunsOnlyPublished)
<1> SUFFICES ASSUME Roomy PROVE Spec => []RunsOnlyPublished
  OBVIOUS
<1>1. RoomyInv => RunsOnlyPublished
  <2> SUFFICES ASSUME RoomyOrderly, service \in {"claimed", "run"}
               PROVE  /\ data[Cur] # NoMsg
                      /\ sends[data[Cur].from] = data[Cur].num =>
                           pc[data[Cur].from] \notin {"fill", "publish"}
    BY DEF RunsOnlyPublished, RoomyInv
  <2> USE DEF RoomyOrderly
  <2>1. PICK k \in Places : k = getId /\ Cur = k
    BY Worked DEF Working
  <2>2. status[k] = 3 /\ data[k] # NoMsg /\ MessageOK(k)
    BY <2>1 DEF ServiceInv, PlacesInv, PlaceOK, MessagesInv
  <2>3. PICK s \in Senders : s = data[k].from
    BY <2>2 DEF TypeOK, Message
  <2>4. ASSUME sends[s] = data[k].num, pc[s] \in {"fill", "publish"} PROVE FALSE
    <3>1. ~Quiet(s) /\ SenderOK(s)
      BY <2>4 DEF Quiet, SendersInv
    <3>2. at[s] = k
      BY <2>2, <2>3, <2>4, <3>1 DEF MessageOK
    <3> QED
      BY <2>1, <2>4, <3>1, <3>2 DEF SenderOK, Working
  <2> QED
    BY <2>1, <2>2, <2>3, <2>4
<1> QED
  BY <1>1, RoomyInvariance, PTL

(* A waiting send returns the executed form of its own message, whoever    *)
(* else is sending.                                                        *)
THEOREM RoomyReply == Roomy => (Spec => []ReplyIsOwn)
<1> SUFFICES ASSUME Roomy PROVE Spec => []ReplyIsOwn
  OBVIOUS
<1>1. RoomyInv => ReplyIsOwn
  <2> SUFFICES ASSUME RoomyOrderly, NEW s \in Senders, pc[s] = "release"
               PROVE  /\ msg[s].from = s /\ msg[s].num = sends[s] /\ msg[s].done
                      /\ ran[s][sends[s]] = 1
    BY DEF ReplyIsOwn, RoomyInv
  <2> USE DEF RoomyOrderly
  <2>1. SenderOK(s) /\ ~Quiet(s) /\ at[s] \in Places
    BY DEF SendersInv, Quiet, TypeOK
  <2>2. /\ Sending(msg[s], s) /\ msg[s].done
        /\ Sending(data[at[s]], s) /\ data[at[s]].done
    BY <2>1 DEF SenderOK
  <2>3. ran[s][sends[s]] = 1
    BY <2>1, <2>2 DEF Sending, Roomy, MessagesInv, MessageOK
  <2> QED
    BY <2>2, <2>3 DEF Sending
<1> QED
  BY <1>1, RoomyInvariance, PTL

(* No message is run twice, waited for or not, whoever else is sending.    *)
THEOREM RoomyOnce == Roomy => (Spec => []RunsAtMostOnce)
<1> SUFFICES ASSUME Roomy PROVE Spec => []RunsAtMostOnce
  OBVIOUS
<1>1. RoomyInv => RunsAtMostOnce
  BY DEF RoomyInv, RoomyOrderly, RunsInv, RunsAtMostOnce
<1> QED
  BY <1>1, RoomyInvariance, PTL

Protocol ==
  \A k \in Places : status'[k] # status[k] =>
    <<status[k], status'[k]>> \in
      {<<0, 2>>, <<2, 3>>, <<3, 0>>, <<3, 4>>, <<4, 5>>, <<4, 0>>, <<5, 0>>}

(* One command changes, and the way the protocol says. *)
LEMMA ProtocolStep ==
  ASSUME RoomyOrderly, NEW j \in Places, NEW v, status' = [status EXCEPT ![j] = v],
         <<status[j], v>> \in
           {<<0, 2>>, <<2, 3>>, <<3, 0>>, <<3, 4>>, <<4, 5>>, <<4, 0>>, <<5, 0>>}
  PROVE  Protocol
<1>1. status'[j] = v /\ \A k \in Places \ {j} : status'[k] = status[k]
  BY DEF RoomyOrderly, TypeOK
<1>2. ASSUME NEW k \in Places, status'[k] # status[k] PROVE k = j
  BY <1>1, <1>2
<1> QED
  BY <1>1, <1>2 DEF Protocol

(* How a sender moves a status.                                            *)
LEMMA ProtocolSend ==
  ASSUME Roomy, RoomyOrderly, NEW s \in Senders, Send(s), status' # status
  PROVE  Protocol
<1> USE DEF RoomyOrderly
<1>1. Publish(s) \/ SeeReply(s) \/ Release(s)
  BY DEF Send, Reserve, Fill, TooLong, CopyBack, map
<1>2. ~Quiet(s) /\ SenderOK(s)
  BY <1>1 DEF Publish, SeeReply, Release, Quiet, SendersInv
<1>3. PICK j \in Places : j = at[s]
  BY DEF TypeOK
<1>4. CASE Publish(s)
  <2>1. status' = [status EXCEPT ![j] = 2] /\ status[j] = 0
    BY <1>2, <1>3, <1>4 DEF Publish, SenderOK
  <2> QED
    BY <2>1, ProtocolStep
<1>5. CASE SeeReply(s)
  <2>1. status' = [status EXCEPT ![j] = 5] /\ status[j] = 4
    BY <1>3, <1>5 DEF SeeReply
  <2> QED
    BY <2>1, ProtocolStep
<1>6. CASE Release(s)
  <2>1. status' = [status EXCEPT ![j] = 0] /\ status[j] \in {4, 5}
    BY <1>2, <1>3, <1>6 DEF Release, SenderOK
  <2> QED
    BY <2>1, ProtocolStep
<1> QED
  BY <1>1, <1>4, <1>5, <1>6

(* How the service thread moves a status.                                  *)
LEMMA ProtocolService ==
  ASSUME Roomy, RoomyOrderly, Service, status' # status
  PROVE  Protocol
<1> USE DEF RoomyOrderly
<1>1. Claim \/ StoreStatus
  BY DEF Service, Poll, ClaimFails, Recheck, RecheckUnclaimed, BadMagic, Run, RunExits, ReadWait, Advance, Fault, map
<1>2. CASE Claim
  <2>1. PICK j \in Places : j = Cur
    <3>1. getId \in Nat /\ Slots \in Nat \ {0}
      BY SentinelAssumption DEF TypeOK
    <3>2. getId % Slots \in 0 .. Slots - 1
      BY <3>1
    <3> QED
      BY <3>2 DEF Cur, PlaceOf, Places
  <2>2. status' = [status EXCEPT ![j] = 3] /\ status[j] = 2
    BY <1>2, <2>1 DEF Claim
  <2> QED
    BY <2>2, ProtocolStep
<1>3. CASE StoreStatus
  <2>1. PICK j \in Places : j = getId /\ Cur = j
    BY <1>3, Worked DEF StoreStatus, Working
  <2>2. status[j] = 3
    BY <1>3, <2>1 DEF StoreStatus, ServiceInv
  <2>3. CASE reply
    <3>1. status' = [status EXCEPT ![j] = 4]
      BY <1>3, <2>1, <2>3 DEF StoreStatus
    <3> QED
      BY <2>2, <3>1, ProtocolStep
  <2>4. CASE ~reply
    <3>1. status' = [status EXCEPT ![j] = 0]
      BY <1>3, <2>1, <2>4 DEF StoreStatus
    <3> QED
      BY <2>2, <3>1, ProtocolStep
  <2> QED
    BY <2>3, <2>4
<1> QED
  BY <1>1, <1>2, <1>3

(* A publish never lands on a command that is still being served, and no   *)
(* answer on a newly published one: Status goes round, whoever writes it.  *)
THEOREM StatusGoesRound == Roomy => (Spec => StatusProtocol)
<1> SUFFICES ASSUME Roomy PROVE Spec => [][~astray => Protocol]_status
  BY DEF StatusProtocol, Protocol
<1>1. RoomyInv /\ [Next]_vars => [~astray => Protocol]_status
  <2> SUFFICES ASSUME RoomyOrderly, Next, status' # status PROVE Protocol
    BY DEF vars, map, RoomyInv
  <2>1. ASSUME Server PROVE FALSE
    BY <2>1 DEF Server, StartThread, StoreHandle, CloseHandle, Unmap, map
  <2> QED
    BY <2>1, ProtocolSend, ProtocolService DEF Next
<1> QED
  BY <1>1, RoomyInvariance, PTL DEF Spec
=============================================================================
