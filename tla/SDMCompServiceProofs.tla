------------------------ MODULE SDMCompServiceProofs ------------------------
(***************************************************************************)
(* What holds of the command service for every number of clients, daemons, *)
(* listeners, drains and packets, whatever fails and however the callers   *)
(* interleave Create and Destroy.                                          *)
(***************************************************************************)
EXTENDS SDMCompService, TLAPS

\* A client past GetInstance has a composer to work on.  TypeOK alone is not
\* inductive: Init stores the interface it makes in that composer.
HasInstance ==
    \A c \in Client : pc[c] \notin {"idle", "new", "fetch"} => inst[c] \in Impl

\* Until the socket is first opened no listener has been started.
NoListenerYet == fd = "unset" => \A l \in Listener : pc[l] = "off"

\* A listener past recvfrom, and a drain that calls, work on a command.
HasCommand ==
    \A t \in Thread :
        pc[t] \in {"got", "defer", "dispatch", "call"} => cmd[t] \in Cmd

\* Whoever walks over pending_commands_ holds pending_cmd_lock_ and visits
\* positions that are there.
DrainOwns ==
    \A t \in Thread :
        /\ pc[t] \in {"drain", "call"} => pend = t
        /\ pc[t] \in {"drain", "call"} => todo[t] \subseteq 1 .. Len(pending)

\* The types, with what makes them inductive.
Types == TypeOK /\ HasInstance /\ HasCommand /\ DrainOwns /\ NoListenerYet

---------------------------------------------------------------------------
(* Lemmas about one step of a program counter                              *)

\* A thread that goes to a place of its own role leaves PcOK true.
LEMMA GotoPcOK ==
  ASSUME PcOK, NEW t \in Thread, NEW v \in Places(t), Goto(t, v)
  PROVE  PcOK'
  BY Threads
  DEF PcOK, Goto, Places, Thread, ClientPC, DaemonPC, ListenerPC, DrainPC

\* The same for a thread that starts another one.
LEMMA SpawnPcOK ==
  ASSUME PcOK, NEW t \in Thread, NEW v \in Places(t),
         NEW s \in Thread, NEW w \in Places(s),
         pc' = [pc EXCEPT ![t] = v, ![s] = w]
  PROVE  PcOK'
  BY Threads
  DEF PcOK, Places, Thread, ClientPC, DaemonPC, ListenerPC, DrainPC

\* A step that moves no thread leaves PcOK true.
LEMMA StayPcOK == PcOK /\ UNCHANGED pc => PcOK'
  BY DEF PcOK

\* Which places each role has.
LEMMA RolePlaces ==
  /\ \A c \in Client : c \in Thread /\ Places(c) = ClientPC
  /\ \A d \in Daemon : d \in Thread /\ Places(d) = DaemonPC
  /\ \A l \in Listener : l \in Thread /\ Places(l) = ListenerPC
  /\ \A d \in Drain : d \in Thread /\ Places(d) = DrainPC
  BY Threads DEF Places, Thread

\* The initial state has the types.
LEMMA InitTypes == Init => Types
<1> SUFFICES ASSUME Init PROVE Types
  OBVIOUS
<1>1. PcOK
  BY Threads, RolePlaces
  DEF Init, PcOK, Thread, ClientPC, DaemonPC, ListenerPC, DrainPC
<1>2. LocksOK /\ SessionOK /\ ServiceOK
  BY Bounds DEF Init, LocksOK, SessionOK, ServiceOK
<1>3. WorkOK /\ PacketsOK
  BY DEF Init, WorkOK, PacketsOK
<1>4. HasInstance /\ HasCommand /\ DrainOwns /\ NoListenerYet
  BY Threads DEF Init, HasInstance, HasCommand, DrainOwns,
     NoListenerYet, Thread
<1> QED
  BY <1>1, <1>2, <1>3, <1>4 DEF Types, TypeOK

---------------------------------------------------------------------------
(* Every step keeps the types: one lemma for each role, one step for each  *)
(* group of variables.                                                     *)

\* The packets of the socket that the last registration closes are lost.
LEMMA UnregisterPackets ==
  ASSUME PacketsOK, NEW t, UnRegisterCallback(t)
  PROVE  PacketsOK'
<1>1. CASE NobodyLeft(callbacks') /\ fd = "open"
  <2>1. fate' \in [Cmd -> {"unsent", "sent", "deferred", "reached", "done",
                         "lost"}]
    BY <1>1 DEF PacketsOK, UnRegisterCallback
  <2>2. inbox' \in Seq(Cmd)
    BY <1>1 DEF UnRegisterCallback
  <2> QED
    BY <1>1, <2>1, <2>2 DEF UnRegisterCallback, PacketsOK
<1>2. CASE ~ (NobodyLeft(callbacks') /\ fd = "open")
  BY <1>2 DEF UnRegisterCallback, PacketsOK
<1> QED
  BY <1>1, <1>2

\* A command handed over by the listener, and perhaps answered.
LEMMA DispatchPackets ==
  ASSUME PacketsOK, HasCommand, NEW l \in Listener, Dispatch(l)
  PROVE  PacketsOK'
<1>1. cmd[l] \in Cmd
  BY RolePlaces DEF HasCommand, Dispatch
<1>2. reply' \in [Cmd -> {"none", "ok", "error"}]
  BY <1>1 DEF PacketsOK, Dispatch, Answered
<1>3. given' \in [Cmd -> Nat]
  BY <1>1 DEF PacketsOK, Dispatch, HandOver
<1>4. fate' \in [Cmd -> {"unsent", "sent", "deferred", "reached", "done",
                       "lost"}]
  BY <1>1 DEF PacketsOK, Dispatch, HandOver
<1> QED
  BY <1>2, <1>3, <1>4 DEF Dispatch, PacketsOK

\* A decision of a caller or of a sender.
LEMMA DecisionTypes ==
  ASSUME Types, Decision
  PROVE  Types'
<1> USE DEF Types, TypeOK
<1>1. PcOK'
  BY GotoPcOK, StayPcOK, RolePlaces
  DEF Decision, CallCreate, CallDestroy, CallRegister, CallUnregister, Send,
      ClientPC, DaemonPC
<1>2. LocksOK'
  BY
  DEF Decision, CallCreate, CallDestroy, CallRegister, CallUnregister, Send,
      LocksOK, lockVars
<1>3. SessionOK'
  BY Bounds
  DEF Decision, CallCreate, CallDestroy, CallRegister, CallUnregister, Send,
      SessionOK, sessionVars
<1>4. ServiceOK' /\ WorkOK'
  BY
  DEF Decision, CallCreate, CallDestroy, CallRegister, CallUnregister, Send,
      ServiceOK, WorkOK, serviceVars, workVars
<1>5. PacketsOK'
  <2>1. CASE \E c \in Client : CallCreate(c)
    BY <2>1 DEF CallCreate, PacketsOK, packetVars
  <2>2. CASE \E c \in Client : CallDestroy(c)
    BY <2>2 DEF CallDestroy, PacketsOK, packetVars
  <2>3. CASE \E d \in Daemon : CallRegister(d)
    BY <2>3 DEF CallRegister, PacketsOK, packetVars
  <2>4. CASE \E d \in Daemon : CallUnregister(d)
    BY <2>4 DEF CallUnregister, PacketsOK, packetVars
  <2>5. CASE \E c \in Cmd : Send(c)
    BY <2>5 DEF Send, PacketsOK, packetVars
  <2> QED
    BY <2>1, <2>2, <2>3, <2>4, <2>5 DEF Decision
<1>6. HasInstance'
  BY RolePlaces, Threads
  DEF Decision, CallCreate, CallDestroy, CallRegister, CallUnregister, Send,
      HasInstance, PcOK, SessionOK, sessionVars, Impl, Goto
<1>7. HasCommand'
  BY RolePlaces, Threads
  DEF Decision, CallCreate, CallDestroy, CallRegister, CallUnregister, Send,
      HasCommand, PcOK, WorkOK, workVars, Goto
<1>8. DrainOwns'
  BY RolePlaces, Threads
  DEF Decision, CallCreate, CallDestroy, CallRegister, CallUnregister, Send,
      DrainOwns, PcOK, LocksOK, WorkOK, PacketsOK, lockVars, workVars,
      packetVars, Goto
<1>9. NoListenerYet'
  BY RolePlaces, Threads
  DEF Decision, CallCreate, CallDestroy, CallRegister, CallUnregister, Send,
      NoListenerYet, PcOK, serviceVars, Goto
<1> QED
  BY <1>1, <1>2, <1>3, <1>4, <1>5, <1>6, <1>7, <1>8, <1>9

\* A step of a client's own code, before and after the service.
LEMMA ClientStepTypes ==
  ASSUME Types, NEW c \in Client, ClientStep(c)
  PROVE  Types'
<1> USE DEF Types, TypeOK
<1>1. PcOK'
  BY GotoPcOK, StayPcOK, RolePlaces
  DEF ClientStep, NewInstance, ReturnInstance, InitAgain, InitFirst,
      CreateCoreSucceeds, CreateCoreFails, DeinitShared, DeinitLast,
      DestroyCoreSucceeds, DestroyCoreFails, ClientPC
<1>2. LocksOK'
  BY RolePlaces
  DEF ClientStep, NewInstance, ReturnInstance, InitAgain, InitFirst,
      CreateCoreSucceeds, CreateCoreFails, DeinitShared, DeinitLast,
      DestroyCoreSucceeds, DestroyCoreFails, LocksOK, lockVars
<1>3. SessionOK'
  <2>1. CASE NewInstance(c)
    BY <2>1, Bounds DEF NewInstance, Impl, SessionOK, sessionVars
  <2>2. CASE ReturnInstance(c)
    BY <2>2, Bounds DEF ReturnInstance, SessionOK, sessionVars
  <2>3. CASE InitAgain(c)
    BY <2>3, Bounds DEF InitAgain, SessionOK, sessionVars
  <2>4. CASE InitFirst(c)
    BY <2>4, Bounds DEF InitFirst, SessionOK, sessionVars
  <2>5. CASE CreateCoreSucceeds(c)
    BY <2>5, Bounds DEF CreateCoreSucceeds, SessionOK, sessionVars
  <2>6. CASE CreateCoreFails(c)
    BY <2>6, Bounds DEF CreateCoreFails, SessionOK, sessionVars
  <2>7. CASE DeinitShared(c)
    BY <2>7, Bounds DEF DeinitShared, OneLess, SessionOK, sessionVars
  <2>8. CASE DeinitLast(c)
    BY <2>8, Bounds DEF DeinitLast, OneLess, SessionOK, sessionVars
  <2>9. CASE DestroyCoreSucceeds(c)
    BY <2>9, Bounds DEF DestroyCoreSucceeds, SessionOK, sessionVars
  <2>10. CASE DestroyCoreFails(c)
    BY <2>10, Bounds DEF DestroyCoreFails, SessionOK, sessionVars
  <2> QED
    BY <2>1, <2>2, <2>3, <2>4, <2>5, <2>6, <2>7, <2>8, <2>9, <2>10 DEF
       ClientStep
<1>4. ServiceOK' /\ WorkOK' /\ PacketsOK'
  BY
  DEF ClientStep, NewInstance, ReturnInstance, InitAgain, InitFirst,
      CreateCoreSucceeds, CreateCoreFails, DeinitShared, DeinitLast,
      DestroyCoreSucceeds, DestroyCoreFails, ServiceOK, WorkOK, PacketsOK,
      serviceVars, workVars, packetVars
<1>5. HasInstance'
  BY RolePlaces, Threads
  DEF ClientStep, NewInstance, ReturnInstance, InitAgain, InitFirst,
      CreateCoreSucceeds, CreateCoreFails, DeinitShared, DeinitLast,
      DestroyCoreSucceeds, DestroyCoreFails, HasInstance, PcOK, SessionOK,
      sessionVars, Impl, Goto
<1>6. HasCommand'
  BY RolePlaces, Threads
  DEF ClientStep, NewInstance, ReturnInstance, InitAgain, InitFirst,
      CreateCoreSucceeds, CreateCoreFails, DeinitShared, DeinitLast,
      DestroyCoreSucceeds, DestroyCoreFails, HasCommand, PcOK, WorkOK,
      workVars, Goto
<1>7. DrainOwns'
  BY RolePlaces, Threads
  DEF ClientStep, NewInstance, ReturnInstance, InitAgain, InitFirst,
      CreateCoreSucceeds, CreateCoreFails, DeinitShared, DeinitLast,
      DestroyCoreSucceeds, DestroyCoreFails, DrainOwns, PcOK, LocksOK,
      WorkOK, PacketsOK, lockVars, workVars, packetVars, Goto
<1>8. NoListenerYet'
  BY RolePlaces, Threads
  DEF ClientStep, NewInstance, ReturnInstance, InitAgain, InitFirst,
      CreateCoreSucceeds, CreateCoreFails, DeinitShared, DeinitLast,
      DestroyCoreSucceeds, DestroyCoreFails, NoListenerYet, PcOK,
      serviceVars, Goto
<1> QED
  BY <1>1, <1>2, <1>3, <1>4, <1>5, <1>6, <1>7, <1>8

\* A step of RegisterCallback or UnRegisterCallback.
LEMMA RegisterTypes ==
  ASSUME Types, NEW t \in Client \cup Daemon, Register(t)
  PROVE  Types'
<1> USE DEF Types, TypeOK
<1>1. PcOK'
  BY GotoPcOK, SpawnPcOK, RolePlaces, Threads
  DEF Register, RegisterMore, RegisterNoLib, RegisterBreaks, RegisterFirst,
      UnRegisterCallback, ClientPC, DaemonPC, ListenerPC, DrainPC, MayLeave
<1>2. LocksOK'
  BY RolePlaces
  DEF Register, RegisterMore, RegisterNoLib, RegisterBreaks, RegisterFirst,
      UnRegisterCallback, LocksOK, lockVars
<1>3. SessionOK'
  BY Bounds, RolePlaces, Threads
  DEF Register, RegisterMore, RegisterNoLib, RegisterBreaks, RegisterFirst,
      UnRegisterCallback, SessionOK, HasInstance, sessionVars, Stored
<1>4. CallbackOf(t) \in 0 .. MaxImpl
  BY Bounds DEF SessionOK, CallbackOf
<1>5. ServiceOK'
  BY <1>4
  DEF Register, RegisterMore, RegisterNoLib, RegisterBreaks, RegisterFirst,
      UnRegisterCallback, ServiceOK, serviceVars, Push, Erase, OneLess,
      FdAfterClose
<1>6. WorkOK'
  BY
  DEF Register, RegisterMore, RegisterNoLib, RegisterBreaks, RegisterFirst,
      UnRegisterCallback, WorkOK, workVars
<1>7. PacketsOK'
  <2>1. CASE RegisterMore(t)
    BY <2>1 DEF RegisterMore, PacketsOK, packetVars
  <2>2. CASE RegisterNoLib(t)
    BY <2>2 DEF RegisterNoLib, PacketsOK, packetVars
  <2>3. CASE RegisterBreaks(t)
    BY <2>3 DEF RegisterBreaks, PacketsOK, packetVars
  <2>4. CASE RegisterFirst(t)
    BY <2>4 DEF RegisterFirst, PacketsOK, packetVars
  <2>5. CASE UnRegisterCallback(t)
    BY <2>5, UnregisterPackets DEF UnRegisterCallback
  <2> QED
    BY <2>1, <2>2, <2>3, <2>4, <2>5 DEF Register
<1>8. HasInstance'
  BY RolePlaces, Threads
  DEF Register, RegisterMore, RegisterNoLib, RegisterBreaks, RegisterFirst,
      UnRegisterCallback, HasInstance, PcOK, SessionOK, sessionVars, Impl,
      Goto, FdAfterClose, MayLeave
<1>9. HasCommand'
  BY RolePlaces, Threads
  DEF Register, RegisterMore, RegisterNoLib, RegisterBreaks, RegisterFirst,
      UnRegisterCallback, HasCommand, PcOK, WorkOK, workVars, Goto,
      FdAfterClose, MayLeave
<1>10. DrainOwns'
  <2>1. CASE RegisterMore(t)
    BY <2>1, RolePlaces, Threads
    DEF RegisterMore, DrainOwns, PcOK, LocksOK, WorkOK, PacketsOK, lockVars,
        workVars, packetVars, Goto
  <2>2. CASE RegisterNoLib(t)
    BY <2>2, RolePlaces, Threads
    DEF RegisterNoLib, DrainOwns, PcOK, LocksOK, WorkOK, PacketsOK, lockVars,
        workVars, packetVars, Goto
  <2>3. CASE RegisterBreaks(t)
    BY <2>3, RolePlaces, Threads
    DEF RegisterBreaks, DrainOwns, PcOK, LocksOK, WorkOK, PacketsOK, lockVars,
        workVars, packetVars, Goto
  <2>4. CASE RegisterFirst(t)
    BY <2>4, RolePlaces, Threads
    DEF RegisterFirst, DrainOwns, PcOK, LocksOK, WorkOK, PacketsOK, lockVars,
        workVars, packetVars, Goto
  <2>5. CASE UnRegisterCallback(t)
    BY <2>5, RolePlaces, Threads
    DEF UnRegisterCallback, DrainOwns, PcOK, LocksOK, WorkOK, PacketsOK, lockVars,
        workVars, packetVars, Goto, MayLeave
  <2> QED
    BY <2>1, <2>2, <2>3, <2>4, <2>5 DEF Register
<1>11. NoListenerYet'
  BY RolePlaces, Threads
  DEF Register, RegisterMore, RegisterNoLib, RegisterBreaks, RegisterFirst,
      UnRegisterCallback, NoListenerYet, PcOK, serviceVars, Goto,
      FdAfterClose, MayLeave
<1> QED
  BY <1>1, <1>2, <1>3, <1>4, <1>5, <1>6, <1>7, <1>8, <1>9, <1>10, <1>11

\* A step of QRTREventHandler.
LEMMA ListenerStepTypes ==
  ASSUME Types, NEW l \in Listener, ListenerStep(l)
  PROVE  Types'
<1> USE DEF Types, TypeOK
<1>1. PcOK'
  BY GotoPcOK, StayPcOK, RolePlaces
  DEF ListenerStep, Handle, ListenerStarts, TestLoop, PollFindsPacket,
      PollFindsExit, PollFindsError, Receive, ReceiveFails,
      ReceiveNothing, HandleOther,
      HandleBadPacket, HandleByService, HandleRejects, HandleAccepts,
      HandlePostpones, Defer, Dispatch, ListenerPC, Finish, Answered
<1>2. LocksOK'
  BY RolePlaces
  DEF ListenerStep, Handle, ListenerStarts, TestLoop, PollFindsPacket,
      PollFindsExit, PollFindsError, Receive, ReceiveFails,
      ReceiveNothing, HandleOther,
      HandleBadPacket, HandleByService, HandleRejects, HandleAccepts,
      HandlePostpones, Defer, Dispatch, LocksOK, lockVars, Finish, Answered,
      QrtrUnlocked
<1>3. SessionOK' /\ ServiceOK'
  BY
  DEF ListenerStep, Handle, ListenerStarts, TestLoop, PollFindsPacket,
      PollFindsExit, PollFindsError, Receive, ReceiveFails,
      ReceiveNothing, HandleOther,
      HandleBadPacket, HandleByService, HandleRejects, HandleAccepts,
      HandlePostpones, Defer, Dispatch, SessionOK, ServiceOK, sessionVars,
      serviceVars, Finish, Answered
<1>4. WorkOK'
  <2>1. CASE ListenerStarts(l)
    BY <2>1, RolePlaces DEF ListenerStarts, WorkOK, PacketsOK, workVars
  <2>2. CASE TestLoop(l)
    BY <2>2, RolePlaces DEF TestLoop, WorkOK, PacketsOK, workVars
  <2>3. CASE PollFindsPacket(l)
    BY <2>3, RolePlaces DEF PollFindsPacket, WorkOK, PacketsOK, workVars
  <2>4. CASE PollFindsExit(l)
    BY <2>4, RolePlaces DEF PollFindsExit, WorkOK, PacketsOK, workVars
  <2>5. CASE PollFindsError(l)
    BY <2>5, RolePlaces DEF PollFindsError, WorkOK, PacketsOK, workVars
  <2>6. CASE Receive(l)
    BY <2>6, RolePlaces DEF Receive, WorkOK, PacketsOK, workVars
  <2>7. CASE ReceiveFails(l) \/ ReceiveNothing(l)
    BY <2>7, RolePlaces
    DEF ReceiveFails, ReceiveNothing, WorkOK, PacketsOK, workVars
  <2>8. CASE HandleOther(l)
    BY <2>8, RolePlaces DEF HandleOther, Finish, Answered, WorkOK, PacketsOK,
       workVars
  <2>9. CASE HandleBadPacket(l)
    BY <2>9, RolePlaces DEF HandleBadPacket, Finish, Answered, WorkOK,
       PacketsOK,
       workVars
  <2>10. CASE HandleByService(l)
    BY <2>10, RolePlaces DEF HandleByService, Finish, Answered, WorkOK,
       PacketsOK,
       workVars
  <2>11. CASE HandleRejects(l)
    BY <2>11, RolePlaces DEF HandleRejects, Finish, Answered, WorkOK, PacketsOK,
       workVars
  <2>12. CASE HandleAccepts(l)
    BY <2>12, RolePlaces DEF HandleAccepts, Registered, WorkOK, PacketsOK,
       workVars
  <2>13. CASE HandlePostpones(l)
    BY <2>13, RolePlaces DEF HandlePostpones, WorkOK, PacketsOK, workVars
  <2>14. CASE Defer(l)
    BY <2>14, RolePlaces DEF Defer, Answered, WorkOK, PacketsOK, workVars
  <2>15. CASE Dispatch(l)
    BY <2>15, RolePlaces DEF Dispatch, HandOver, WorkOK, PacketsOK, workVars
  <2> QED
    BY <2>1, <2>2, <2>3, <2>4, <2>5, <2>6, <2>7, <2>8, <2>9, <2>10, <2>11,
       <2>12, <2>13, <2>14, <2>15 DEF ListenerStep, Handle
<1>5. PacketsOK'
  <2>1. CASE ListenerStarts(l)
    BY <2>1, RolePlaces DEF ListenerStarts, PacketsOK, packetVars
  <2>2. CASE TestLoop(l)
    BY <2>2, RolePlaces DEF TestLoop, PacketsOK, packetVars
  <2>3. CASE PollFindsPacket(l)
    BY <2>3, RolePlaces DEF PollFindsPacket, PacketsOK, packetVars
  <2>4. CASE PollFindsExit(l)
    BY <2>4, RolePlaces DEF PollFindsExit, PacketsOK, packetVars
  <2>5. CASE PollFindsError(l)
    BY <2>5, RolePlaces DEF PollFindsError, PacketsOK, packetVars
  <2>6. CASE Receive(l)
    BY <2>6, RolePlaces DEF Receive, PacketsOK, packetVars
  <2>7. CASE ReceiveFails(l) \/ ReceiveNothing(l)
    BY <2>7, RolePlaces DEF ReceiveFails, ReceiveNothing, PacketsOK, packetVars
  <2>8. CASE HandleOther(l)
    BY <2>8, RolePlaces DEF HandleOther, Finish, Answered, PacketsOK, packetVars
  <2>9. CASE HandleBadPacket(l)
    BY <2>9, RolePlaces DEF HandleBadPacket, Finish, Answered, PacketsOK,
       packetVars
  <2>10. CASE HandleByService(l)
    BY <2>10, RolePlaces DEF HandleByService, Finish, Answered, PacketsOK,
       packetVars
  <2>11. CASE HandleRejects(l)
    BY <2>11, RolePlaces DEF HandleRejects, Finish, Answered, PacketsOK,
       packetVars
  <2>12. CASE HandleAccepts(l)
    BY <2>12, RolePlaces DEF HandleAccepts, PacketsOK, packetVars
  <2>13. CASE HandlePostpones(l)
    BY <2>13, RolePlaces DEF HandlePostpones, PacketsOK, packetVars
  <2>14. CASE Defer(l)
    BY <2>14, RolePlaces DEF Defer, Answered, Postponed, HasCommand, PacketsOK,
       packetVars
  <2>15. CASE Dispatch(l)
    BY <2>15, DispatchPackets DEF Dispatch
  <2> QED
    BY <2>1, <2>2, <2>3, <2>4, <2>5, <2>6, <2>7, <2>8, <2>9, <2>10, <2>11,
       <2>12, <2>13, <2>14, <2>15 DEF ListenerStep, Handle
<1>6. HasInstance'
  BY RolePlaces, Threads
  DEF ListenerStep, Handle, ListenerStarts, TestLoop, PollFindsPacket,
      PollFindsExit, PollFindsError, Receive, ReceiveFails,
      ReceiveNothing, HandleOther,
      HandleBadPacket, HandleByService, HandleRejects, HandleAccepts,
      HandlePostpones, Defer, Dispatch, HasInstance, PcOK, SessionOK,
      sessionVars, Impl, Goto, Finish, Answered
<1>7. HasCommand'
  <2>1. CASE ListenerStarts(l)
    BY <2>1, RolePlaces, Threads DEF ListenerStarts, HasCommand, PcOK,
       WorkOK, workVars, Goto, Finish, Answered, PacketsOK
  <2>2. CASE TestLoop(l)
    BY <2>2, RolePlaces, Threads DEF TestLoop, HasCommand, PcOK, WorkOK,
       workVars, Goto, Finish, Answered, PacketsOK
  <2>3. CASE PollFindsPacket(l)
    BY <2>3, RolePlaces, Threads DEF PollFindsPacket, HasCommand, PcOK,
       WorkOK, workVars, Goto, Finish, Answered, PacketsOK
  <2>4. CASE PollFindsExit(l)
    BY <2>4, RolePlaces, Threads DEF PollFindsExit, HasCommand, PcOK, WorkOK,
       workVars, Goto, Finish, Answered, PacketsOK
  <2>5. CASE PollFindsError(l)
    BY <2>5, RolePlaces, Threads DEF PollFindsError, HasCommand, PcOK,
       WorkOK, workVars, Goto, Finish, Answered, PacketsOK
  <2>6. CASE Receive(l)
    BY <2>6, RolePlaces, Threads DEF Receive, HasCommand, PcOK, WorkOK,
       workVars, Goto, Finish, Answered, PacketsOK
  <2>7. CASE ReceiveFails(l) \/ ReceiveNothing(l)
    BY <2>7, RolePlaces, Threads
    DEF ReceiveFails, ReceiveNothing, HasCommand, PcOK, WorkOK,
       workVars, Goto, Finish, Answered, PacketsOK
  <2>8. CASE HandleOther(l)
    BY <2>8, RolePlaces, Threads DEF HandleOther, HasCommand, PcOK, WorkOK,
       workVars, Goto, Finish, Answered, PacketsOK
  <2>9. CASE HandleBadPacket(l)
    BY <2>9, RolePlaces, Threads DEF HandleBadPacket, HasCommand, PcOK,
       WorkOK, workVars, Goto, Finish, Answered, PacketsOK
  <2>10. CASE HandleByService(l)
    BY <2>10, RolePlaces, Threads DEF HandleByService, HasCommand, PcOK,
       WorkOK, workVars, Goto, Finish, Answered, PacketsOK
  <2>11. CASE HandleRejects(l)
    BY <2>11, RolePlaces, Threads DEF HandleRejects, HasCommand, PcOK,
       WorkOK, workVars, Goto, Finish, Answered, PacketsOK
  <2>12. CASE HandleAccepts(l)
    BY <2>12, RolePlaces, Threads DEF HandleAccepts, HasCommand, PcOK,
       WorkOK, workVars, Goto, Finish, Answered, PacketsOK
  <2>13. CASE HandlePostpones(l)
    BY <2>13, RolePlaces, Threads DEF HandlePostpones, HasCommand, PcOK,
       WorkOK, workVars, Goto, Finish, Answered, PacketsOK
  <2>14. CASE Defer(l)
    BY <2>14, RolePlaces, Threads DEF Defer, HasCommand, PcOK, WorkOK,
       workVars, Goto, Finish, Answered, PacketsOK
  <2>15. CASE Dispatch(l)
    BY <2>15, RolePlaces, Threads DEF Dispatch, HasCommand, PcOK, WorkOK,
       workVars, Goto, Finish, Answered, PacketsOK
  <2> QED
    BY <2>1, <2>2, <2>3, <2>4, <2>5, <2>6, <2>7, <2>8, <2>9, <2>10, <2>11,
       <2>12, <2>13, <2>14, <2>15 DEF ListenerStep, Handle
<1>8. DrainOwns'
  <2>1. CASE ListenerStarts(l)
    BY <2>1, RolePlaces, Threads DEF ListenerStarts, DrainOwns, PcOK,
       LocksOK, WorkOK, PacketsOK, lockVars, workVars, packetVars, Goto,
       Finish, Answered
  <2>2. CASE TestLoop(l)
    BY <2>2, RolePlaces, Threads DEF TestLoop, DrainOwns, PcOK, LocksOK,
       WorkOK, PacketsOK, lockVars, workVars, packetVars, Goto, Finish, Answered
  <2>3. CASE PollFindsPacket(l)
    BY <2>3, RolePlaces, Threads DEF PollFindsPacket, DrainOwns, PcOK,
       LocksOK, WorkOK, PacketsOK, lockVars, workVars, packetVars, Goto,
       Finish, Answered
  <2>4. CASE PollFindsExit(l)
    BY <2>4, RolePlaces, Threads DEF PollFindsExit, DrainOwns, PcOK, LocksOK,
       WorkOK, PacketsOK, lockVars, workVars, packetVars, Goto, Finish, Answered
  <2>5. CASE PollFindsError(l)
    BY <2>5, RolePlaces, Threads DEF PollFindsError, DrainOwns, PcOK,
       LocksOK, WorkOK, PacketsOK, lockVars, workVars, packetVars, Goto,
       Finish, Answered
  <2>6. CASE Receive(l)
    BY <2>6, RolePlaces, Threads DEF Receive, DrainOwns, PcOK, LocksOK,
       WorkOK, PacketsOK, lockVars, workVars, packetVars, Goto, Finish, Answered
  <2>7. CASE ReceiveFails(l) \/ ReceiveNothing(l)
    BY <2>7, RolePlaces, Threads
    DEF ReceiveFails, ReceiveNothing, DrainOwns, PcOK, LocksOK,
       WorkOK, PacketsOK, lockVars, workVars, packetVars, Goto, Finish, Answered
  <2>8. CASE HandleOther(l)
    BY <2>8, RolePlaces, Threads DEF HandleOther, DrainOwns, PcOK, LocksOK,
       WorkOK, PacketsOK, lockVars, workVars, packetVars, Goto, Finish, Answered
  <2>9. CASE HandleBadPacket(l)
    BY <2>9, RolePlaces, Threads DEF HandleBadPacket, DrainOwns, PcOK,
       LocksOK, WorkOK, PacketsOK, lockVars, workVars, packetVars, Goto,
       Finish, Answered
  <2>10. CASE HandleByService(l)
    BY <2>10, RolePlaces, Threads DEF HandleByService, DrainOwns, PcOK,
       LocksOK, WorkOK, PacketsOK, lockVars, workVars, packetVars, Goto,
       Finish, Answered
  <2>11. CASE HandleRejects(l)
    BY <2>11, RolePlaces, Threads DEF HandleRejects, DrainOwns, PcOK,
       LocksOK, WorkOK, PacketsOK, lockVars, workVars, packetVars, Goto,
       Finish, Answered
  <2>12. CASE HandleAccepts(l)
    BY <2>12, RolePlaces, Threads DEF HandleAccepts, DrainOwns, PcOK,
       LocksOK, WorkOK, PacketsOK, lockVars, workVars, packetVars, Goto,
       Finish, Answered
  <2>13. CASE HandlePostpones(l)
    BY <2>13, RolePlaces, Threads DEF HandlePostpones, DrainOwns, PcOK,
       LocksOK, WorkOK, PacketsOK, lockVars, workVars, packetVars, Goto,
       Finish, Answered
  <2>14. CASE Defer(l)
    BY <2>14, RolePlaces, Threads DEF Defer, Postponed, DrainOwns, PcOK,
       LocksOK, WorkOK, PacketsOK, lockVars, workVars, packetVars, Goto,
       Finish, Answered
  <2>15. CASE Dispatch(l)
    BY <2>15, RolePlaces, Threads DEF Dispatch, HandOver, DrainOwns, PcOK,
       LocksOK, WorkOK, PacketsOK, lockVars, workVars, packetVars, Goto,
       Finish, Answered
  <2> QED
    BY <2>1, <2>2, <2>3, <2>4, <2>5, <2>6, <2>7, <2>8, <2>9, <2>10, <2>11,
       <2>12, <2>13, <2>14, <2>15 DEF ListenerStep, Handle
<1>9. NoListenerYet'
  BY RolePlaces, Threads
  DEF ListenerStep, Handle, ListenerStarts, TestLoop, PollFindsPacket,
      PollFindsExit, PollFindsError, Receive, ReceiveFails,
      ReceiveNothing, HandleOther,
      HandleBadPacket, HandleByService, HandleRejects, HandleAccepts,
      HandlePostpones, Defer, Dispatch, NoListenerYet, PcOK, serviceVars,
      Goto, Finish, Answered
<1> QED
  BY <1>1, <1>2, <1>3, <1>4, <1>5, <1>6, <1>7, <1>8, <1>9

\* A step of HandlePendingCommands.
LEMMA DrainStepTypes ==
  ASSUME Types, NEW t \in Client \cup Drain, HandlePendingCommands(t)
  PROVE  Types'
<1> USE DEF Types, TypeOK
<1>1. PcOK'
  BY GotoPcOK, StayPcOK, RolePlaces, Threads
  DEF HandlePendingCommands, DrainStarts, DrainSkips, DrainFetches,
      DrainCalls, DrainEnds, ClientPC, DrainPC
<1>2. LocksOK'
  BY RolePlaces
  DEF HandlePendingCommands, DrainStarts, DrainSkips, DrainFetches,
      DrainCalls, DrainEnds, LocksOK, lockVars, QrtrUnlocked
<1>3. SessionOK' /\ ServiceOK'
  BY
  DEF HandlePendingCommands, DrainStarts, DrainSkips, DrainFetches,
      DrainCalls, DrainEnds, SessionOK, ServiceOK, sessionVars, serviceVars
<1>4. WorkOK'
  <2>1. CASE DrainStarts(t)
    BY <2>1, RolePlaces DEF DrainStarts, WorkOK, PacketsOK, workVars
  <2>2. CASE DrainSkips(t)
    BY <2>2, RolePlaces DEF DrainSkips, NextPending, WorkOK, PacketsOK,
       workVars
  <2>3. CASE DrainFetches(t)
    BY <2>3, RolePlaces DEF DrainFetches, Registered, NextPending, DrainOwns,
       WorkOK, PacketsOK, workVars
  <2>4. CASE DrainCalls(t)
    BY <2>4, RolePlaces DEF DrainCalls, HandOver, WorkOK, PacketsOK, workVars
  <2>5. CASE DrainEnds(t)
    BY <2>5, RolePlaces DEF DrainEnds, WorkOK, PacketsOK, workVars
  <2> QED
    BY <2>1, <2>2, <2>3, <2>4, <2>5 DEF HandlePendingCommands
<1>5. PacketsOK'
  <2>1. CASE DrainStarts(t)
    BY <2>1, RolePlaces DEF DrainStarts, PacketsOK, packetVars
  <2>2. CASE DrainSkips(t)
    BY <2>2, RolePlaces DEF DrainSkips, PacketsOK, packetVars
  <2>3. CASE DrainFetches(t)
    BY <2>3, RolePlaces DEF DrainFetches, PacketsOK, packetVars
  <2>4. CASE DrainCalls(t)
    BY <2>4, RolePlaces DEF DrainCalls, HandOver, HasCommand, PacketsOK,
       packetVars
  <2>5. CASE DrainEnds(t)
    BY <2>5, RolePlaces DEF DrainEnds, PendingCleared, PacketsOK, packetVars
  <2> QED
    BY <2>1, <2>2, <2>3, <2>4, <2>5 DEF HandlePendingCommands
<1>6. HasInstance'
  BY RolePlaces, Threads
  DEF HandlePendingCommands, DrainStarts, DrainSkips, DrainFetches,
      DrainCalls, DrainEnds, HasInstance, PcOK, SessionOK, sessionVars, Impl,
      Goto
<1>7. HasCommand'
  <2>1. CASE DrainStarts(t)
    BY <2>1, RolePlaces, Threads DEF DrainStarts, HasCommand, PcOK, WorkOK,
       workVars, Goto, PacketsOK, DrainOwns, NextPending, HandOver
  <2>2. CASE DrainSkips(t)
    BY <2>2, RolePlaces, Threads DEF DrainSkips, HasCommand, PcOK, WorkOK,
       workVars, Goto, PacketsOK, DrainOwns, NextPending, HandOver
  <2>3. CASE DrainFetches(t)
    BY <2>3, RolePlaces, Threads DEF DrainFetches, HasCommand, PcOK, WorkOK,
       workVars, Goto, PacketsOK, DrainOwns, NextPending, HandOver
  <2>4. CASE DrainCalls(t)
    BY <2>4, RolePlaces, Threads DEF DrainCalls, HasCommand, PcOK, WorkOK,
       workVars, Goto, PacketsOK, DrainOwns, NextPending, HandOver
  <2>5. CASE DrainEnds(t)
    BY <2>5, RolePlaces, Threads DEF DrainEnds, HasCommand, PcOK, WorkOK,
       workVars, Goto, PacketsOK, DrainOwns, NextPending, HandOver
  <2> QED
    BY <2>1, <2>2, <2>3, <2>4, <2>5 DEF HandlePendingCommands
<1>8. DrainOwns'
  <2>1. CASE DrainStarts(t)
    BY <2>1, RolePlaces, Threads DEF DrainStarts, DrainOwns, PcOK, LocksOK,
       WorkOK, PacketsOK, lockVars, workVars, packetVars, Goto
  <2>2. CASE DrainSkips(t)
    BY <2>2, RolePlaces, Threads DEF DrainSkips, DrainOwns, PcOK, LocksOK,
       WorkOK, PacketsOK, lockVars, workVars, packetVars, Goto
  <2>3. CASE DrainFetches(t)
    BY <2>3, RolePlaces, Threads DEF DrainFetches, DrainOwns, PcOK, LocksOK,
       WorkOK, PacketsOK, lockVars, workVars, packetVars, Goto
  <2>4. CASE DrainCalls(t)
    BY <2>4, RolePlaces, Threads DEF DrainCalls, HandOver, DrainOwns, PcOK,
       LocksOK, WorkOK, PacketsOK, lockVars, workVars, packetVars, Goto
  <2>5. CASE DrainEnds(t)
    BY <2>5, RolePlaces, Threads DEF DrainEnds, PendingCleared, DrainOwns,
       PcOK, LocksOK, WorkOK, PacketsOK, lockVars, workVars, packetVars, Goto
  <2> QED
    BY <2>1, <2>2, <2>3, <2>4, <2>5 DEF HandlePendingCommands
<1>9. NoListenerYet'
  BY RolePlaces, Threads
  DEF HandlePendingCommands, DrainStarts, DrainSkips, DrainFetches,
      DrainCalls, DrainEnds, NoListenerYet, PcOK, serviceVars, Goto
<1> QED
  BY <1>1, <1>2, <1>3, <1>4, <1>5, <1>6, <1>7, <1>8, <1>9

---------------------------------------------------------------------------
(* Theorems                                                                *)

\* Every step of the service keeps the types.
LEMMA NextTypes == Types /\ [Next]_vars => Types'
<1> SUFFICES ASSUME Types, [Next]_vars PROVE Types'
  OBVIOUS
<1>1. CASE Decision
  BY <1>1, DecisionTypes
<1>2. CASE \E t \in Client \cup Daemon : Register(t)
  BY <1>2, RegisterTypes
<1>3. CASE \E c \in Client : ClientStep(c)
  BY <1>3, ClientStepTypes
<1>4. CASE \E l \in Listener : ListenerStep(l)
  BY <1>4, ListenerStepTypes
<1>5. CASE \E t \in Client \cup Drain : HandlePendingCommands(t)
  BY <1>5, DrainStepTypes
<1>6. CASE UNCHANGED vars
  BY <1>6
  DEF Types, TypeOK, PcOK, LocksOK, SessionOK, ServiceOK, WorkOK, PacketsOK,
      HasInstance, HasCommand, DrainOwns, NoListenerYet, vars, lockVars,
      sessionVars, serviceVars, workVars, packetVars
<1> QED
  BY <1>1, <1>2, <1>3, <1>4, <1>5, <1>6 DEF Next

\* The types hold of every reachable state: TypeOK, and with it the facts
\* that a client past GetInstance has a composer, that a listener or a drain
\* has the command it works on, and that a drain visits pending_commands_
\* only inside its lock and only where there is something.
THEOREM TypeCorrect == Spec => []TypeOK
<1>1. Init => Types
  BY InitTypes
<1>2. Types /\ [Next]_vars => Types'
  BY NextTypes
<1>3. Types => TypeOK
  BY DEF Types
<1> QED
  BY <1>1, <1>2, <1>3, PTL DEF Spec

\* A started listener is the only one: RegisterFirst, the only step that
\* starts one, needs qrtr_fd_ unset, when by NoListenerYet there is none, and
\* nothing ever sets it back.
THEOREM SingleListener == Spec => []OneListener
<1>1. Init => OneListener
  BY Threads DEF Init, OneListener, Thread
<1>2. Types /\ OneListener /\ [Next]_vars => OneListener'
  <2> SUFFICES ASSUME Types, OneListener, [Next]_vars PROVE OneListener'
    OBVIOUS
  <2> USE DEF OneListener
  <2>1. CASE \E t \in Client \cup Daemon : RegisterFirst(t)
    BY <2>1, Threads, RolePlaces
    DEF RegisterFirst, Types, TypeOK, PcOK, NoListenerYet
  <2>2. CASE UNCHANGED pc
    BY <2>2
  <2>3. ASSUME NEW t \in Thread, NEW v, Goto(t, v),
               t \in Listener => pc[t] # "off"
        PROVE  OneListener'
    BY <2>3, RolePlaces DEF Goto, Types, TypeOK, PcOK
  <2>4. CASE \E t \in Client \cup Daemon : RegisterMore(t)
    BY <2>4, Threads, RolePlaces
    DEF RegisterMore, Goto, Types, TypeOK, PcOK
  <2>5. CASE Decision
    BY <2>2, <2>3, <2>5, Threads, RolePlaces
    DEF Decision, CallCreate, CallDestroy, CallRegister, CallUnregister,
        Send, Thread
  <2>6. ASSUME NEW t \in Client \cup Daemon,
               RegisterNoLib(t) \/ RegisterBreaks(t) \/ UnRegisterCallback(t)
        PROVE  OneListener'
    BY <2>3, <2>6, Threads, RolePlaces
    DEF RegisterNoLib, RegisterBreaks, UnRegisterCallback, Thread
  <2>7. CASE \E c \in Client : ClientStep(c)
    BY <2>3, <2>7, Threads, RolePlaces
    DEF ClientStep, NewInstance, ReturnInstance, InitAgain, InitFirst,
        CreateCoreSucceeds, CreateCoreFails, DeinitShared, DeinitLast,
        DestroyCoreSucceeds, DestroyCoreFails, Thread
  <2>8. CASE \E l \in Listener : ListenerStep(l)
    BY <2>2, <2>3, <2>8, RolePlaces
    DEF ListenerStep, ListenerStarts, TestLoop, PollFindsPacket,
        PollFindsExit, PollFindsError, Receive, ReceiveFails,
        ReceiveNothing, Handle,
        HandleOther, HandleBadPacket, HandleByService, HandleRejects,
        HandleAccepts, HandlePostpones, Defer, Dispatch, Finish, Answered
  <2>9. CASE \E t \in Client \cup Drain : HandlePendingCommands(t)
    BY <2>2, <2>3, <2>9, Threads, RolePlaces
    DEF HandlePendingCommands, DrainStarts, DrainSkips, DrainFetches,
        DrainCalls, DrainEnds, Thread
  <2>10. CASE UNCHANGED vars
    BY <2>2, <2>10 DEF vars
  <2> QED
    BY <2>1, <2>4, <2>5, <2>6, <2>7, <2>8, <2>9, <2>10 DEF Next, Register
<1>3. Init => Types
  BY InitTypes
<1>4. Types /\ [Next]_vars => Types'
  BY NextTypes
<1> QED
  BY <1>1, <1>2, <1>3, <1>4, PTL DEF Spec

---------------------------------------------------------------------------
(* The drain inside the first registration                                 *)

\* What keeps pending_commands_ empty until the first registration has
\* drained it: whoever is in a critical section of qrtr_lock_ owns the lock,
\* only a listener stores commands, and before the socket is open there is none.
QrtrOwned ==
    /\ \A c \in Client : pc[c] \in {"dwant", "drain"} => qrtr = c
    /\ \A l \in Listener : pc[l] = "defer" => qrtr = l
NothingPendingYet ==
    /\ fd = "unset" => pending = <<>>
    /\ \A c \in Client : pc[c] # "call"
DrainInv == QrtrOwned /\ NothingPendingYet /\ FirstDrainEmpty

LEMMA InitDrainInv == Init => DrainInv
  BY Threads
  DEF Init, DrainInv, QrtrOwned, NothingPendingYet, FirstDrainEmpty, Thread

\* A step that touches neither pending_commands_, the socket nor qrtr_lock_,
\* and takes one thread to a place outside the sections of DrainInv.
LEMMA GotoDrainInv ==
  ASSUME Types, DrainInv, NEW t \in Thread,
         NEW v \in ClientPC \cup DaemonPC \cup ListenerPC \cup DrainPC,
         t \in Client => v \notin {"dwant", "drain", "call"},
         v # "defer",
         pc' = pc \/ Goto(t, v),
         UNCHANGED <<pending, fd, qrtr>>
  PROVE  DrainInv'
  BY RolePlaces, Threads
  DEF DrainInv, QrtrOwned, NothingPendingYet, FirstDrainEmpty, Goto, Types,
      TypeOK, PcOK

\* A step of RegisterCallback or UnRegisterCallback.
LEMMA RegisterDrainInv ==
  ASSUME Types, DrainInv, NEW t \in Client \cup Daemon, Register(t)
  PROVE  DrainInv'
<1> USE DEF DrainInv, QrtrOwned, NothingPendingYet, FirstDrainEmpty, Types,
            TypeOK, PcOK
<1>1. CASE RegisterMore(t)
  BY <1>1, RolePlaces, Threads DEF RegisterMore, Goto, lockVars, packetVars
<1>2. CASE RegisterNoLib(t)
  BY <1>2, RolePlaces, Threads
  DEF RegisterNoLib, Goto, serviceVars, packetVars
<1>3. CASE RegisterBreaks(t)
  BY <1>3, RolePlaces, Threads
  DEF RegisterBreaks, Goto, packetVars, LocksOK, Thread
<1>4. CASE RegisterFirst(t)
  BY <1>4, RolePlaces, Threads
  DEF RegisterFirst, packetVars, LocksOK, Thread
<1>5. CASE UnRegisterCallback(t)
  BY <1>5, RolePlaces, Threads
  DEF UnRegisterCallback, MayLeave, Goto, FdAfterClose
<1> QED
  BY <1>1, <1>2, <1>3, <1>4, <1>5 DEF Register

\* A step of QRTREventHandler: before the socket is open there is no listener.
LEMMA ListenerDrainInv ==
  ASSUME Types, DrainInv, NEW l \in Listener, ListenerStep(l)
  PROVE  DrainInv'
<1>1. fd # "unset" /\ fd' = fd
  BY
  DEF Types, NoListenerYet, ListenerStep, Handle, ListenerStarts, TestLoop,
      PollFindsPacket, PollFindsExit, PollFindsError, Receive, ReceiveFails,
      ReceiveNothing,
      HandleOther, HandleBadPacket, HandleByService, HandleRejects,
      HandleAccepts, HandlePostpones, Defer, Dispatch, Finish, serviceVars
<1> USE DEF DrainInv, QrtrOwned, NothingPendingYet, FirstDrainEmpty, Types,
            TypeOK, PcOK, lockVars, packetVars, Goto
<1>2. CASE HandleAccepts(l) \/ HandlePostpones(l)
  BY <1>1, <1>2, RolePlaces, Threads
  DEF HandleAccepts, HandlePostpones, LocksOK, Thread
<1>3. CASE Defer(l)
  BY <1>1, <1>3, RolePlaces, Threads DEF Defer, QrtrUnlocked
<1>4. CASE Dispatch(l)
  BY <1>1, <1>4, RolePlaces, Threads DEF Dispatch, QrtrUnlocked
<1>5. CASE \/ ListenerStarts(l) \/ TestLoop(l) \/ PollFindsPacket(l)
           \/ PollFindsExit(l) \/ PollFindsError(l) \/ Receive(l)
           \/ ReceiveFails(l) \/ ReceiveNothing(l)
  BY <1>1, <1>5, RolePlaces, Threads
  DEF ListenerStarts, TestLoop, PollFindsPacket, PollFindsExit,
      PollFindsError, Receive, ReceiveFails, ReceiveNothing
<1>6. CASE \/ HandleOther(l) \/ HandleBadPacket(l) \/ HandleByService(l)
           \/ HandleRejects(l)
  BY <1>1, <1>6, RolePlaces, Threads
  DEF HandleOther, HandleBadPacket, HandleByService, HandleRejects, Finish
<1> QED
  BY <1>2, <1>3, <1>4, <1>5, <1>6 DEF ListenerStep, Handle

\* A step of HandlePendingCommands: inside RegisterFirst it finds nothing.
LEMMA PendingDrainInv ==
  ASSUME Types, DrainInv, NEW t \in Client \cup Drain, HandlePendingCommands(t)
  PROVE  DrainInv'
<1>1. t \in Client => pending = <<>> /\ qrtr = t
  BY DEF DrainInv, QrtrOwned, NothingPendingYet, FirstDrainEmpty,
         HandlePendingCommands, DrainStarts, DrainSkips, DrainFetches,
         DrainCalls, DrainEnds
<1>2. t \in Client => ~ DrainFetches(t) /\ ~ DrainCalls(t)
  BY <1>1, RolePlaces
  DEF DrainFetches, DrainCalls, NextPending, Types, DrainOwns, DrainInv,
      NothingPendingYet
<1> USE DEF DrainInv, QrtrOwned, NothingPendingYet, FirstDrainEmpty, Types,
            TypeOK, PcOK, lockVars, packetVars, serviceVars, Goto
<1>3. CASE DrainStarts(t)
  BY <1>1, <1>3, RolePlaces, Threads DEF DrainStarts
<1>4. CASE DrainSkips(t)
  BY <1>4 DEF DrainSkips
<1>5. CASE DrainFetches(t) \/ DrainCalls(t)
  BY <1>2, <1>5, RolePlaces, Threads DEF DrainFetches, DrainCalls
<1>6. CASE DrainEnds(t)
  BY <1>1, <1>6, RolePlaces, Threads DEF DrainEnds, PendingCleared, QrtrUnlocked
<1> QED
  BY <1>3, <1>4, <1>5, <1>6 DEF HandlePendingCommands

\* RegisterFirst drains pending_commands_ with qrtr_lock_ and recursive_mutex_
\* held, an order of locks that could hang with a command to hand over.  There
\* never is one: commands are put off only by a listener, which RegisterFirst
\* has only just started and keeps from qrtr_lock_.
THEOREM FirstDrainFindsNothing == Spec => []FirstDrainEmpty
<1>1. Init => Types /\ DrainInv
  BY InitTypes, InitDrainInv
<1>2. Types /\ DrainInv /\ [Next]_vars => Types' /\ DrainInv'
  <2> SUFFICES ASSUME Types, DrainInv, [Next]_vars PROVE DrainInv'
    BY NextTypes
  <2>1. CASE Decision
    <3>1. ASSUME NEW c \in Client, CallCreate(c) \/ CallDestroy(c)
          PROVE  DrainInv'
      BY <3>1, RolePlaces, GotoDrainInv
      DEF CallCreate, CallDestroy, ClientPC, lockVars, serviceVars, packetVars
    <3>2. ASSUME NEW d \in Daemon, CallRegister(d) \/ CallUnregister(d)
          PROVE  DrainInv'
      BY <3>2, RolePlaces, Threads, GotoDrainInv
      DEF CallRegister, CallUnregister, DaemonPC, lockVars, serviceVars,
          packetVars
    <3>3. CASE \E c \in Cmd : Send(c)
      BY <3>3
      DEF Send, lockVars, serviceVars, DrainInv, QrtrOwned, NothingPendingYet,
          FirstDrainEmpty
    <3> QED
      BY <2>1, <3>1, <3>2, <3>3 DEF Decision
  <2>2. CASE \E t \in Client \cup Daemon : Register(t)
    BY <2>2, RegisterDrainInv
  <2>3. CASE \E c \in Client : ClientStep(c)
    BY <2>3, RolePlaces, GotoDrainInv
    DEF ClientStep, NewInstance, ReturnInstance, InitAgain, InitFirst,
        CreateCoreSucceeds, CreateCoreFails, DeinitShared, DeinitLast,
        DestroyCoreSucceeds, DestroyCoreFails, ClientPC, lockVars,
        serviceVars, packetVars
  <2>4. CASE \E l \in Listener : ListenerStep(l)
    BY <2>4, ListenerDrainInv
  <2>5. CASE \E t \in Client \cup Drain : HandlePendingCommands(t)
    BY <2>5, PendingDrainInv
  <2>6. CASE UNCHANGED vars
    BY <2>6
    DEF vars, lockVars, serviceVars, packetVars, DrainInv, QrtrOwned,
        NothingPendingYet, FirstDrainEmpty
  <2> QED
    BY <2>1, <2>2, <2>3, <2>4, <2>5, <2>6 DEF Next
<1>3. DrainInv => FirstDrainEmpty
  BY DEF DrainInv
<1> QED
  BY <1>1, <1>2, <1>3, PTL DEF Spec

---------------------------------------------------------------------------
(* The socket while a resident daemon is registered                        *)

\* The deployment for which the service stays reachable: there is a daemon,
\* daemons register before any client and never leave, recvfrom does not fail.
\* Without one of these the socket is closed for good, or nobody listens.
Served == Daemon # {} /\ Daemon \subseteq Resident /\ "recv" \notin Faults

\* A registration whose set-up failed keeps qrtr_lock_ for ever.
CleanupHeld == \A t \in Client \cup Daemon : pc[t] = "cleanup" => qrtr = t

\* A daemon that has registered stays in callbacks_, where it came before
\* every client.
DaemonsStay ==
    /\ \A d \in Daemon : pc[d] # "unreg" /\ (pc[d] = "open" => callbacks[0] > 0)
    /\ \A c \in Client : pc[c] # "idle" => \A d \in Daemon : pc[d] = "open"

\* The socket is opened once, by a daemon, with a listener that a registration
\* keeps in its loop; only a set-up that failed leaves it without one.
SocketServed ==
    /\ fd # "closed"
    /\ fd = "unset" => NoCallbacks(callbacks)
    /\ fd = "open" => \/ \E t \in Client \cup Daemon : pc[t] = "cleanup"
                      \/ callbacks[0] > 0 /\ \E l \in Listener : pc[l] # "off"

ReachInv == CleanupHeld /\ DaemonsStay /\ SocketServed

LEMMA InitReachInv == Init => ReachInv
  BY Threads
  DEF Init, ReachInv, CleanupHeld, DaemonsStay, SocketServed, NoCallbacks,
      Thread

\* A step of one thread that leaves callbacks_ and the socket as they are, and
\* qrtr_lock_ too unless it is free or its own.
LEMMA GotoReachInv ==
  ASSUME Types, Served, ReachInv, NEW t \in Thread, NEW v, v # "cleanup",
         pc[t] # "cleanup",
         t \in Client /\ v # "idle"
            => pc[t] # "idle" \/ \A d \in Daemon : pc[d] = "open",
         t \in Daemon => pc[t] # "open" /\ v \notin {"unreg", "open"},
         t \in Listener => v # "off" \/ NoCallbacks(callbacks),
         pc' = pc \/ Goto(t, v),
         qrtr' = qrtr \/ qrtr \in {NoOne, t},
         UNCHANGED <<callbacks, fd>>
  PROVE  ReachInv'
<1> USE Threads, RolePlaces DEF Types, TypeOK, PcOK, ReachInv
<1>1. \A u \in Thread \ {t} : pc'[u] = pc[u]
  BY DEF Goto
<1>2. pc'[t] \in {pc[t], v}
  BY DEF Goto
<1>3. CleanupHeld'
  BY <1>1, <1>2 DEF CleanupHeld, Thread
<1>4. DaemonsStay'
  BY <1>1, <1>2 DEF DaemonsStay, Thread
<1>5. SocketServed'
  <2>1. \A u \in Client \cup Daemon : pc[u] = "cleanup" => pc'[u] = "cleanup"
    BY <1>1 DEF Thread
  <2>2. callbacks[0] > 0 => ~ NoCallbacks(callbacks)
    BY Bounds DEF NoCallbacks, ServiceOK
  <2>3. callbacks[0] > 0
          => \A l \in Listener : pc[l] # "off" => pc'[l] # "off"
    BY <1>1, <1>2, <2>2 DEF Thread
  <2> QED
    BY <2>1, <2>3 DEF SocketServed, NoCallbacks
<1> QED
  BY <1>3, <1>4, <1>5

\* A registration: a client finds the socket open, a daemon may open it.
LEMMA RegisterReachInv ==
  ASSUME Types, Served, ReachInv, NEW t \in Client \cup Daemon, Register(t)
  PROVE  ReachInv'
<1> USE Threads, RolePlaces DEF Types, TypeOK, PcOK, ReachInv
<1>1. t \in Thread /\ t # NoOne
  BY DEF Thread
<1>2. t \in Client => \A d \in Daemon : pc[d] = "open"
  BY DEF Register, RegisterMore, RegisterNoLib, RegisterBreaks, RegisterFirst,
         UnRegisterCallback, MayLeave, DaemonsStay
<1>3. t \in Client => callbacks[0] > 0 /\ fd = "open"
  BY <1>2, Bounds
  DEF Served, DaemonsStay, SocketServed, ServiceOK, NoCallbacks
<1>4. t \in Client => CallbackOf(t) \in Impl
  BY DEF Register, RegisterMore, RegisterNoLib, RegisterBreaks, RegisterFirst,
         UnRegisterCallback, MayLeave, CallbackOf, HasInstance
<1>5. t \in Daemon => CallbackOf(t) = 0
  BY DEF CallbackOf
<1>6. CASE RegisterMore(t)
  <2>1. callbacks' = [callbacks EXCEPT ![CallbackOf(t)] = @ + 1]
    BY <1>6 DEF RegisterMore, Push
  <2>2. /\ callbacks'[0] \in Nat /\ callbacks'[0] >= callbacks[0]
        /\ t \in Daemon => callbacks'[0] > 0
    BY <1>4, <1>5, <2>1, Bounds DEF ServiceOK, Impl
  <2>3. fd' = fd /\ fd # "unset" /\ qrtr' = qrtr /\ qrtr = NoOne
    BY <1>6 DEF RegisterMore, lockVars
  <2>4. \A u \in Client \cup Daemon : pc[u] # "cleanup"
    BY <2>3 DEF CleanupHeld, Thread
  <2>5. /\ \A u \in (Client \cup Daemon \cup Listener) \ {t} : pc'[u] = pc[u]
        /\ pc'[t] = IF t \in Client THEN "core" ELSE "open"
    BY <1>1, <1>6 DEF RegisterMore, Goto
  <2>6. CleanupHeld'
    BY <2>4, <2>5 DEF CleanupHeld
  <2>7. DaemonsStay'
    BY <1>2, <2>2, <2>5, Bounds DEF DaemonsStay, ServiceOK
  <2>8. SocketServed'
    BY <2>2, <2>3, <2>4, <2>5, Bounds DEF SocketServed, ServiceOK
  <2> QED
    BY <2>6, <2>7, <2>8
<1>7. CASE RegisterNoLib(t)
  <2>1. t \in Daemon
    BY <1>3, <1>7 DEF RegisterNoLib
  <2> QED
    BY <1>1, <1>7, <2>1, GotoReachInv DEF RegisterNoLib, serviceVars
<1>8. CASE RegisterBreaks(t)
  <2>1. /\ t \in Daemon /\ pc[t] = "reg" /\ pc' = [pc EXCEPT ![t] = "cleanup"]
        /\ qrtr = NoOne /\ qrtr' = t /\ fd = "unset" /\ fd' \in {"unset", "open"}
        /\ callbacks' = callbacks
    BY <1>3, <1>8 DEF RegisterBreaks, Goto
  <2>2. pc'[t] = "cleanup" /\ \A u \in Thread \ {t} : pc'[u] = pc[u]
    BY <1>1, <2>1
  <2>3. CleanupHeld'
    BY <2>1, <2>2 DEF CleanupHeld, Thread
  <2>4. DaemonsStay'
    BY <2>1, <2>2 DEF DaemonsStay, Thread
  <2>5. SocketServed'
    BY <2>1, <2>2 DEF SocketServed, NoCallbacks
  <2> QED
    BY <2>3, <2>4, <2>5
<1>9. CASE RegisterFirst(t)
  <2>1. PICK l \in Listener : pc' = [pc EXCEPT ![l] = "start", ![t] = "open"]
    BY <1>3, <1>9 DEF RegisterFirst
  <2>2. /\ t \in Daemon /\ pc[t] = "reg" /\ qrtr = NoOne /\ fd' = "open"
        /\ callbacks' = [callbacks EXCEPT ![0] = @ + 1]
    BY <1>3, <1>5, <1>9 DEF RegisterFirst, Push
  <2>3. callbacks'[0] > 0
    BY <2>2, Bounds DEF ServiceOK
  <2>4. pc'[l] = "start" /\ pc'[t] = "open"
        /\ \A u \in Thread \ {l, t} : pc'[u] = pc[u]
    BY <1>1, <2>1, <2>2
  <2>5. CleanupHeld'
    BY <2>2, <2>4 DEF CleanupHeld, Thread
  <2>6. DaemonsStay'
    BY <2>2, <2>3, <2>4 DEF DaemonsStay, Thread
  <2>7. SocketServed'
    BY <2>2, <2>3, <2>4 DEF SocketServed
  <2> QED
    BY <2>5, <2>6, <2>7
<1>10. CASE UnRegisterCallback(t)
  <2>1. pc[t] \in {"unreg", "undo"} /\ t \in Client
    BY <1>1, <1>10
    DEF UnRegisterCallback, MayLeave, CleanupHeld, DaemonsStay, DaemonPC
  <2>2. callbacks' = [callbacks EXCEPT ![CallbackOf(t)] = OneLess(@)]
    BY <1>10 DEF UnRegisterCallback, Erase
  <2>3. callbacks'[0] = callbacks[0] /\ callbacks[0] > 0
    BY <1>3, <1>4, <2>1, <2>2, Bounds DEF ServiceOK, Impl
  <2>4. ~ NobodyLeft(callbacks')
    BY <2>3, Bounds DEF NobodyLeft, NoCallbacks, ServiceOK
  <2>5. fd' = fd /\ fd = "open" /\ qrtr' = qrtr
    BY <1>3, <1>10, <2>1, <2>4 DEF UnRegisterCallback
  <2>6. pc'[t] \in {"destroy", "idle"}
        /\ \A u \in Thread \ {t} : pc'[u] = pc[u]
    BY <1>1, <1>10 DEF UnRegisterCallback, Goto
  <2>7. CleanupHeld'
    BY <2>5, <2>6 DEF CleanupHeld, Thread
  <2>8. DaemonsStay'
    BY <1>2, <2>1, <2>3, <2>6 DEF DaemonsStay, Thread
  <2>9. SocketServed'
    BY <2>1, <2>3, <2>5, <2>6 DEF SocketServed, Thread
  <2> QED
    BY <2>7, <2>8, <2>9
<1> QED
  BY <1>6, <1>7, <1>8, <1>9, <1>10 DEF Register

\* The listener stays: somebody is registered and recvfrom does not fail.
LEMMA ListenerReachInv ==
  ASSUME Types, Served, ReachInv, NEW l \in Listener, ListenerStep(l)
  PROVE  ReachInv'
<1> USE Threads, RolePlaces
<1>1. l \in Thread /\ l \notin Client \cup Daemon /\ pc[l] # "cleanup"
  BY DEF Thread, Types, TypeOK, PcOK, ListenerPC
<1>2. ~ ReceiveFails(l)
  BY DEF ReceiveFails, ReachInv, SocketServed, Served
<1>3. /\ UNCHANGED <<callbacks, fd>>
      /\ qrtr' = qrtr \/ qrtr \in {NoOne, l}
  BY <1>2
  DEF ListenerStep, Handle, ListenerStarts, TestLoop, PollFindsPacket,
      PollFindsExit, PollFindsError, Receive, ReceiveNothing,
      HandleOther, HandleBadPacket, HandleByService, HandleRejects,
      HandleAccepts, HandlePostpones, Defer, Dispatch, Finish, QrtrUnlocked, lockVars, serviceVars
<1>4. \/ pc' = pc
      \/ \E v \in ListenerPC \ {"off"} : Goto(l, v)
      \/ Goto(l, "off") /\ NoCallbacks(callbacks)
  BY <1>2
  DEF ListenerStep, Handle, ListenerStarts, TestLoop, StopsListening,
      PollFindsPacket, PollFindsExit, PollFindsError, Receive, ReceiveNothing,
      HandleOther, HandleBadPacket, HandleByService, HandleRejects, HandleAccepts,
      HandlePostpones, Defer, Dispatch, Finish, ListenerPC
<1>5. \E v \in ListenerPC :
         /\ v # "off" \/ NoCallbacks(callbacks)
         /\ pc' = pc \/ Goto(l, v)
  BY <1>4 DEF ListenerPC
<1> QED
  BY <1>1, <1>3, <1>5, GotoReachInv DEF ListenerPC

\* While a resident daemon is registered, whoever comes and goes beside it,
\* the socket is open and a listener serves it.
THEOREM ServiceStaysReachable ==
  ASSUME Served
  PROVE  Spec => []ServiceReachable
<1>1. Init => Types /\ ReachInv
  BY InitTypes, InitReachInv
<1>2. Types /\ ReachInv /\ [Next]_vars => Types' /\ ReachInv'
  <2> SUFFICES ASSUME Types, ReachInv, [Next]_vars PROVE ReachInv'
    BY NextTypes
  <2> USE Served, Threads, RolePlaces
  <2>1. ASSUME NEW c \in Client, CallCreate(c) \/ CallDestroy(c)
        PROVE  ReachInv'
    BY <2>1, GotoReachInv
    DEF CallCreate, CallDestroy, Served, Thread, lockVars, serviceVars
  <2>2. ASSUME NEW d \in Daemon, CallRegister(d) \/ CallUnregister(d)
        PROVE  ReachInv'
    BY <2>2, GotoReachInv
    DEF CallRegister, CallUnregister, Served, Thread, lockVars, serviceVars
  <2>3. CASE (\E c \in Cmd : Send(c)) \/ UNCHANGED vars
    BY <2>3
    DEF Send, vars, lockVars, serviceVars, ReachInv, CleanupHeld, DaemonsStay,
        SocketServed, NoCallbacks
  <2>4. CASE Decision
    BY <2>1, <2>2, <2>3, <2>4 DEF Decision
  <2>5. CASE \E t \in Client \cup Daemon : Register(t)
    BY <2>5, RegisterReachInv
  <2>6. ASSUME NEW c \in Client, ClientStep(c)
        PROVE  ReachInv'
    BY <2>6, GotoReachInv
    DEF ClientStep, NewInstance, ReturnInstance, InitAgain, InitFirst,
        CreateCoreSucceeds, CreateCoreFails, DeinitShared, DeinitLast,
        DestroyCoreSucceeds, DestroyCoreFails, Thread, lockVars, serviceVars
  <2>7. CASE \E l \in Listener : ListenerStep(l)
    BY <2>7, ListenerReachInv
  <2>8. ASSUME NEW t \in Client \cup Drain, HandlePendingCommands(t)
        PROVE  ReachInv'
    BY <2>8, GotoReachInv
    DEF HandlePendingCommands, DrainStarts, DrainSkips, DrainFetches,
        DrainCalls, DrainEnds, QrtrUnlocked, Thread, lockVars, serviceVars
  <2> QED
    BY <2>3, <2>4, <2>5, <2>6, <2>7, <2>8 DEF Next
<1>3. Types /\ ReachInv => ServiceReachable
  BY Threads
  DEF Types, TypeOK, ServiceOK, ReachInv, CleanupHeld, SocketServed,
      ServiceReachable, Thread
<1> QED
  BY <1>1, <1>2, <1>3, PTL DEF Spec

---------------------------------------------------------------------------
(* Who waits for whom                                                      *)

\* Where the owner of each lock is.
RecHeld ==
    rec # NoOne =>
        /\ rec \in Client
        /\ pc[rec] \in {"reg", "cleanup", "dwant", "drain", "call", "core",
                        "undo", "unreg", "destroy"}
QrtrHeld ==
    qrtr # NoOne =>
        \/ qrtr \in Listener /\ pc[qrtr] \in {"defer", "dispatch"}
        \/ qrtr \in Client \cup Daemon
             /\ pc[qrtr] \in {"cleanup", "dwant", "drain", "call"}
PendHeld ==
    pend # NoOne =>
        pend \in Client \cup Drain /\ pc[pend] \in {"drain", "call"}
LockInv == RecHeld /\ QrtrHeld /\ PendHeld

LEMMA InitLockInv == Init => LockInv
  BY DEF Init, LockInv, RecHeld, QrtrHeld, PendHeld

LEMMA RegisterLockInv ==
  ASSUME Types, LockInv, NEW t \in Client \cup Daemon, Register(t)
  PROVE  LockInv'
<1> USE RolePlaces, Threads
    DEF LockInv, RecHeld, QrtrHeld, PendHeld, Types, TypeOK, PcOK
<1>1. CASE RegisterMore(t)
  BY <1>1 DEF RegisterMore, Goto, lockVars
<1>2. CASE RegisterNoLib(t)
  BY <1>2 DEF RegisterNoLib, Goto
<1>3. CASE RegisterBreaks(t)
  BY <1>3 DEF RegisterBreaks, Goto
<1>4. CASE RegisterFirst(t)
  BY <1>4 DEF RegisterFirst
<1>5. CASE UnRegisterCallback(t)
  BY <1>5 DEF UnRegisterCallback, MayLeave, Goto
<1> QED
  BY <1>1, <1>2, <1>3, <1>4, <1>5 DEF Register

LEMMA ClientLockInv ==
  ASSUME Types, LockInv, NEW c \in Client, ClientStep(c)
  PROVE  LockInv'
<1> USE RolePlaces, Threads
    DEF LockInv, RecHeld, QrtrHeld, PendHeld, Types, TypeOK, PcOK
<1>1. CASE NewInstance(c) \/ ReturnInstance(c) \/ InitAgain(c) \/ InitFirst(c)
  BY <1>1 DEF NewInstance, ReturnInstance, InitAgain, InitFirst, Goto, lockVars
<1>2. CASE CreateCoreSucceeds(c) \/ CreateCoreFails(c)
  BY <1>2 DEF CreateCoreSucceeds, CreateCoreFails, Goto, lockVars
<1>3. CASE DeinitShared(c) \/ DeinitLast(c)
  BY <1>3 DEF DeinitShared, DeinitLast, Goto, lockVars
<1>4. CASE DestroyCoreSucceeds(c) \/ DestroyCoreFails(c)
  BY <1>4 DEF DestroyCoreSucceeds, DestroyCoreFails, Goto
<1> QED
  BY <1>1, <1>2, <1>3, <1>4 DEF ClientStep

LEMMA ListenerLockInv ==
  ASSUME Types, LockInv, NEW l \in Listener, ListenerStep(l)
  PROVE  LockInv'
<1> USE RolePlaces, Threads
    DEF LockInv, RecHeld, QrtrHeld, PendHeld, Types, TypeOK, PcOK
<1>1. CASE \/ ListenerStarts(l) \/ TestLoop(l) \/ PollFindsPacket(l)
           \/ PollFindsExit(l) \/ PollFindsError(l) \/ Receive(l)
           \/ ReceiveFails(l) \/ ReceiveNothing(l)
  BY <1>1
  DEF ListenerStarts, TestLoop, PollFindsPacket, PollFindsExit,
      PollFindsError, Receive, ReceiveFails, ReceiveNothing, Goto, lockVars
<1>2. CASE \/ HandleOther(l) \/ HandleBadPacket(l) \/ HandleByService(l)
           \/ HandleRejects(l)
  <2>1. pc[l] = "got" /\ Goto(l, "loop") /\ UNCHANGED lockVars
    BY <1>2
    DEF HandleOther, HandleBadPacket, HandleByService, HandleRejects, Finish
  <2> QED
    BY <2>1 DEF Goto, lockVars
<1>3. CASE HandleAccepts(l) \/ HandlePostpones(l)
  BY <1>3 DEF HandleAccepts, HandlePostpones, Goto
<1>4. CASE Defer(l)
  BY <1>4 DEF Defer, QrtrUnlocked, Goto
<1>5. CASE Dispatch(l)
  <2>1. /\ pc[l] = "dispatch" /\ UNCHANGED <<rec, pend>>
        /\ \/ qrtr' = QrtrUnlocked(l) /\ Goto(l, "loop")
           \/ UNCHANGED <<qrtr, pc>>
    BY <1>5 DEF Dispatch
  <2> QED
    BY <2>1 DEF QrtrUnlocked, Goto
<1> QED
  BY <1>1, <1>2, <1>3, <1>4, <1>5 DEF ListenerStep, Handle

LEMMA DrainLockInv ==
  ASSUME Types, LockInv, NEW t \in Client \cup Drain, HandlePendingCommands(t)
  PROVE  LockInv'
<1> USE RolePlaces, Threads
    DEF LockInv, RecHeld, QrtrHeld, PendHeld, Types, TypeOK, PcOK
<1>1. CASE DrainStarts(t)
  BY <1>1 DEF DrainStarts, Goto
<1>2. CASE DrainSkips(t) \/ DrainFetches(t)
  BY <1>2 DEF DrainSkips, DrainFetches, Goto, lockVars
<1>3. CASE DrainCalls(t)
  BY <1>3 DEF DrainCalls, Goto, lockVars
<1>4. CASE DrainEnds(t)
  BY <1>4 DEF DrainEnds, QrtrUnlocked, Goto
<1> QED
  BY <1>1, <1>2, <1>3, <1>4 DEF HandlePendingCommands

LEMMA NextLockInv == Types /\ LockInv /\ [Next]_vars => LockInv'
<1> SUFFICES ASSUME Types, LockInv, [Next]_vars PROVE LockInv'
  OBVIOUS
<1> USE RolePlaces, Threads
    DEF LockInv, RecHeld, QrtrHeld, PendHeld, Types, TypeOK, PcOK
<1>1. CASE Decision
  <2>1. ASSUME NEW c \in Client, CallCreate(c) \/ CallDestroy(c)
        PROVE  LockInv'
    BY <2>1 DEF CallCreate, CallDestroy, Goto, lockVars
  <2>2. ASSUME NEW d \in Daemon, CallRegister(d) \/ CallUnregister(d)
        PROVE  LockInv'
    BY <2>2 DEF CallRegister, CallUnregister, Goto, lockVars
  <2>3. ASSUME NEW c \in Cmd, Send(c)
        PROVE  LockInv'
    BY <2>3 DEF Send, lockVars
  <2> QED
    BY <1>1, <2>1, <2>2, <2>3 DEF Decision
<1>2. CASE UNCHANGED vars
  BY <1>2 DEF vars, lockVars
<1> QED
  BY <1>1, <1>2, RegisterLockInv, ClientLockInv, ListenerLockInv, DrainLockInv
  DEF Next

\* Whoever has pending_cmd_lock_ waits for nothing but an OnEvent, whoever has
\* qrtr_lock_ then for nothing of a circle, and whoever has recursive_mutex_
\* for neither.
LEMMA LocksInOrder == Types /\ LockInv => CirclesHandOver
<1> SUFFICES ASSUME Types, LockInv, NEW circle \in SUBSET Blocked,
                    \A t \in circle : \E u \in circle : WaitsFor(t, u),
                    circle # {},
                    \A t \in circle :
                        pc[t] \notin {"cleanup", "dispatch", "call"}
             PROVE  FALSE
  BY DEF CirclesHandOver, WaitForEachOther
<1> USE RolePlaces, Threads DEF LockInv, Types, TypeOK, PcOK
<1>1. \A t \in circle : t # NoOne /\ t \in Thread
  BY DEF Blocked
<1>2. ASSUME NEW t \in circle, NEW u \in circle,
             pc[t] \in {"dwant", "defer"}, WaitsFor(t, u)
      PROVE  FALSE
  <2>1. pend = u
    BY <1>2 DEF WaitsFor
  <2>2. pc[u] = "drain"
    BY <1>1, <2>1 DEF PendHeld
  <2> QED
    BY <2>2 DEF WaitsFor
<1>3. ASSUME NEW t \in circle, NEW u \in circle,
             pc[t] \in {"reg", "undo", "unreg", "start", "got"}, WaitsFor(t, u)
      PROVE  FALSE
  <2>1. qrtr = u
    BY <1>3 DEF WaitsFor
  <2>2. pc[u] \in {"defer", "dwant", "drain"}
    BY <1>1, <2>1 DEF QrtrHeld
  <2>3. PICK v \in circle : WaitsFor(u, v)
    OBVIOUS
  <2> QED
    BY <1>2, <2>2, <2>3 DEF WaitsFor
<1>4. ASSUME NEW t \in circle, NEW u \in circle,
             pc[t] \in {"init", "closing"}, WaitsFor(t, u)
      PROVE  FALSE
  <2>1. rec = u
    BY <1>4 DEF WaitsFor
  <2>2. pc[u] \in {"reg", "dwant", "drain", "core", "undo", "unreg", "destroy"}
    BY <1>1, <2>1 DEF RecHeld
  <2>3. PICK v \in circle : WaitsFor(u, v)
    OBVIOUS
  <2> QED
    BY <1>2, <1>3, <2>2, <2>3 DEF WaitsFor
<1>5. PICK t \in circle, u \in circle : WaitsFor(t, u)
  OBVIOUS
<1> QED
  BY <1>2, <1>3, <1>4, <1>5 DEF WaitsFor

\* A deadlock of any number of threads has an OnEvent in it, which waits for
\* recursive_mutex_ with qrtr_lock_ or pending_cmd_lock_ held, or is the
\* failure path of RegisterCallback: there is no third way, whatever fails and
\* however callers interleave.
THEOREM DeadlocksHandOver == Spec => []CirclesHandOver
<1>1. Init => Types /\ LockInv
  BY InitTypes, InitLockInv
<1>2. Types /\ LockInv /\ [Next]_vars => Types' /\ LockInv'
  BY NextTypes, NextLockInv
<1>3. Types /\ LockInv => CirclesHandOver
  BY LocksInOrder
<1> QED
  BY <1>1, <1>2, <1>3, PTL DEF Spec

=============================================================================
