------------------------ MODULE SDMCompSessionProofs ------------------------
(***************************************************************************)
(* What holds of the sessions when the callers serialise Create and        *)
(* Destroy and the core can be destroyed: ref_count_ counts the sessions,  *)
(* callbacks_ has the composer they use and no other, and so the listener  *)
(* calls a composer that is there and a command is handed over once.       *)
(***************************************************************************)
EXTENDS SDMCompServiceProofs, FiniteSetTheorems

\* The callers and the core for which these theorems hold.
Disciplined == Serial /\ "destroycore" \notin Faults

---------------------------------------------------------------------------
(* The inductive invariant of the sessions                                 *)

\* A client that is in a Create or a Destroy.
Busy(c) == pc[c] \notin {"idle", "open"}
OneBusy == \A c, d \in Client : Busy(c) /\ Busy(d) => c = d

\* The places with recursive_mutex_ held, and those of them at which the
\* composer is registered.
Locked(c) == pc[c] \in {"reg", "cleanup", "dwant", "drain", "call", "core",
                        "undo", "unreg", "destroy"}
Joined(c) == pc[c] \in {"dwant", "drain", "call", "core", "undo", "unreg"}
RecOwned == \A c \in Client : Locked(c) <=> rec = c
NobodyElse == rec \in Client \cup {NoOne}

\* Who has a composer has the one sdm_comp_impl_ points to.
InstOK ==
    /\ impl # 0 => impl \in alive
    /\ \A c \in Client :
          /\ pc[c] = "new" => impl = 0
          /\ pc[c] = "fetch" => impl # 0
          /\ pc[c] \notin {"idle", "new", "fetch"} => impl # 0 /\ inst[c] = impl

\* The sessions that ref_count_ counts; inside Init and Deinit it is 0.
Session == {c \in Client : pc[c] \in {"open", "closing"}}
CountOK ==
    /\ refCount = Cardinality(Session)
    /\ \A c \in Client : Locked(c) => refCount = 0

\* callbacks_ has the composer of the sessions, once, and no other.
InService == refCount > 0 \/ \E c \in Client : Joined(c)
CallbacksOK ==
    /\ \A i \in Impl : callbacks[i] = IF InService /\ i = impl THEN 1 ELSE 0
    /\ InService => impl \in intf

SessionInv ==
    OneBusy /\ RecOwned /\ NobodyElse /\ InstOK /\ CountOK /\ CallbacksOK

---------------------------------------------------------------------------
(* The inductive invariant of the commands                                 *)

\* The listener that calls has qrtr_lock_, so that callbacks_ stays as it was
\* when it began.
DispatchOK ==
    \A l \in Listener : pc[l] = "dispatch" =>
        qrtr = l /\ pass[l] \subseteq Registered

\* pending_cmd_lock_ is held only by who walks over pending_commands_.
PendOwned ==
    \A t \in Thread : pend = t =>
        t \in Client \cup Drain /\ pc[t] \in {"drain", "call"}

\* Whoever walks over callbacks_ has at most one composer to call, and the
\* command was handed to nobody before.
OnePass(t) ==
    /\ \A i, j \in pass[t] : i = j
    /\ pass[t] # {} => given[cmd[t]] = 0

Listening(l) == pc[l] \in {"got", "defer", "dispatch"}
ListenerHas ==
    \A l \in Listener : Listening(l) =>
        /\ fate[cmd[l]] # "unsent"
        /\ \A k \in 1 .. Len(inbox) : inbox[k] # cmd[l]
        /\ \A k \in 1 .. Len(pending) : pending[k] # cmd[l]
        /\ pc[l] = "dispatch" => OnePass(l)
        /\ pc[l] # "dispatch" => given[cmd[l]] = 0

DrainHas ==
    \A t \in Client \cup Drain : pc[t] = "call" =>
        /\ OnePass(t)
        /\ \E k \in (1 .. Len(pending)) \ todo[t] : pending[k] = cmd[t]

\* A packet is in the socket or in pending_commands_ at one place, and was
\* handed to nobody while it has still to be taken from there.
InboxOK ==
    /\ \A k, m \in 1 .. Len(inbox) : inbox[k] = inbox[m] => k = m
    /\ \A k \in 1 .. Len(inbox) :
          /\ fate[inbox[k]] # "unsent" /\ given[inbox[k]] = 0
          /\ \A m \in 1 .. Len(pending) : pending[m] # inbox[k]
PendingOK ==
    /\ \A k, m \in 1 .. Len(pending) : pending[k] = pending[m] => k = m
    /\ \A k \in 1 .. Len(pending) :
          /\ fate[pending[k]] # "unsent"
          /\ pend = NoOne => given[pending[k]] = 0
          /\ \A t \in Thread :
                pend = t /\ k \in todo[t] => given[pending[k]] = 0

\* A packet nobody sent is nowhere.
Unsent == \A c \in Cmd : fate[c] = "unsent" => given[c] = 0

CommandInv ==
    /\ PendOwned /\ ListenerHas /\ DrainHas /\ InboxOK /\ PendingOK /\ Unsent
    /\ HandedOnce

---------------------------------------------------------------------------
(* The sessions: lemmas about one step                                     *)

LEMMA SessionFinite == IsFiniteSet(Session)
  BY FS_Subset, Threads DEF Session, Thread

\* A client that opens or closes a session changes what ref_count_ counts.
LEMMA SessionOpens ==
  ASSUME PcOK, NEW c \in Client, NEW v \in {"open", "closing"},
         pc[c] \notin {"open", "closing"}, Goto(c, v)
  PROVE  /\ Cardinality(Session') = Cardinality(Session) + 1
         /\ Cardinality(Session) \in Nat
<1>1. Session' = Session \cup {c} /\ c \notin Session
  BY RolePlaces DEF Session, Goto, PcOK
<1> QED
  BY <1>1, SessionFinite, FS_AddElement, FS_CardinalityType

LEMMA SessionCloses ==
  ASSUME PcOK, NEW c \in Client, NEW v, v \notin {"open", "closing"},
         pc[c] \in {"open", "closing"}, Goto(c, v)
  PROVE  /\ Cardinality(Session') = Cardinality(Session) - 1
         /\ Cardinality(Session) \in Nat
<1>1. Session' = Session \ {c} /\ c \in Session
  BY RolePlaces DEF Session, Goto, PcOK
<1> QED
  BY <1>1, SessionFinite, FS_RemoveElement, FS_CardinalityType

LEMMA SessionStays ==
  ASSUME \A c \in Client : pc'[c] \in {"open", "closing"}
                              <=> pc[c] \in {"open", "closing"}
  PROVE  Session' = Session
  BY DEF Session

\* Without a session there is nobody in one.
LEMMA NoSession ==
  ASSUME CountOK, refCount = 0
  PROVE  \A c \in Client : pc[c] \notin {"open", "closing"}
<1>1. Session = {}
  BY SessionFinite, FS_EmptySet DEF CountOK
<1> QED
  BY <1>1 DEF Session

\* With one there is.
LEMMA SomeSession ==
  ASSUME CountOK, refCount > 0
  PROVE  \E c \in Client : pc[c] \in {"open", "closing"}
<1>1. Session # {}
  BY FS_EmptySet DEF CountOK
<1> QED
  BY <1>1 DEF Session

\* Only one client is busy, and it stays so.
LEMMA BusyStays ==
  ASSUME PcOK, OneBusy, Disciplined, NEW c \in Client, Busy(c) \/ MayCall(c),
         \A d \in Client \ {c} : pc'[d] = pc[d]
  PROVE  OneBusy'
  BY DEF OneBusy, Busy, MayCall, Disciplined

\* A step that leaves the clients where they are for the sessions, and what
\* belongs to these as it was.
LEMMA SessionFrame ==
  ASSUME SessionInv,
         UNCHANGED <<rec, impl, alive, intf, refCount, inst>>,
         \A i \in Impl : callbacks'[i] = callbacks[i],
         \A c \in Client : pc'[c] = pc[c] \/ (Joined(c) /\ Joined(c)')
  PROVE  SessionInv'
<1>1. \A c \in Client : /\ Busy(c)' <=> Busy(c)
                        /\ Locked(c)' <=> Locked(c)
                        /\ Joined(c)' <=> Joined(c)
  BY DEF Busy, Locked, Joined
<1>2. OneBusy' /\ RecOwned' /\ NobodyElse'
  BY <1>1 DEF SessionInv, OneBusy, RecOwned, NobodyElse
<1>3. InstOK'
  BY DEF SessionInv, InstOK, Joined
<1>4. Session' = Session
  BY SessionStays DEF Joined
<1>5. CountOK'
  BY <1>1, <1>4 DEF SessionInv, CountOK
<1>6. CallbacksOK'
  BY <1>1 DEF SessionInv, CallbacksOK, InService
<1> QED
  BY <1>2, <1>3, <1>5, <1>6 DEF SessionInv

LEMMA InitSessionInv == Init => SessionInv
<1> SUFFICES ASSUME Init PROVE SessionInv
  OBVIOUS
<1>1. Session = {}
  BY Threads DEF Init, Session, Thread
<1> QED
  BY <1>1, FS_EmptySet, Threads
  DEF Init, SessionInv, OneBusy, Busy, RecOwned, NobodyElse, Locked, InstOK,
      CountOK, CallbacksOK, InService, Joined, Thread, Impl

---------------------------------------------------------------------------
(* Every step keeps the sessions                                           *)

\* The beginning of Create, up to the registration.
LEMMA CreateSession ==
  ASSUME Types, SessionInv, Disciplined, NEW c \in Client,
         \/ CallCreate(c) \/ NewInstance(c) \/ ReturnInstance(c)
         \/ InitAgain(c) \/ InitFirst(c)
  PROVE  SessionInv'
<1> USE DEF Types, TypeOK, SessionInv
<1> USE RolePlaces, Threads
<1>1. \A d \in Client \ {c} : pc'[d] = pc[d]
  BY DEF CallCreate, NewInstance, ReturnInstance, InitAgain, InitFirst, Goto,
         PcOK
<1>2. OneBusy'
  BY <1>1, BusyStays
  DEF CallCreate, NewInstance, ReturnInstance, InitAgain, InitFirst, Busy
<1>3. RecOwned' /\ NobodyElse'
  BY <1>1
  DEF CallCreate, NewInstance, ReturnInstance, InitAgain, InitFirst, Goto,
      PcOK, RecOwned, NobodyElse, Locked, lockVars, Thread
<1>4. InstOK'
  <2>1. CASE NewInstance(c)
    BY <1>1, <2>1, Bounds
    DEF NewInstance, Goto, PcOK, InstOK, OneBusy, Busy, SessionOK
  <2>2. CASE CallCreate(c) \/ InitAgain(c) \/ InitFirst(c)
    BY <1>1, <2>2
    DEF CallCreate, InitAgain, InitFirst, Goto, PcOK, InstOK, sessionVars
  <2>3. CASE ReturnInstance(c)
    BY <1>1, <2>3 DEF ReturnInstance, Goto, PcOK, InstOK, SessionOK
  <2> QED
    BY <2>1, <2>2, <2>3
<1>5. CountOK'
  <2>1. CASE InitAgain(c)
    <3>1. \A d \in Client : ~ Locked(d)'
      BY <1>3, <2>1 DEF InitAgain, RecOwned, lockVars
    <3>2. Cardinality(Session') = Cardinality(Session) + 1
      BY <2>1, SessionOpens DEF InitAgain
    <3> QED
      BY <2>1, <3>1, <3>2 DEF InitAgain, CountOK
  <2>2. CASE InitFirst(c)
    <3>1. Session' = Session
      BY <1>1, <2>2, SessionStays DEF InitFirst, Goto, PcOK
    <3> QED
      BY <3>1, <1>1, <2>2 DEF InitFirst, CountOK, sessionVars
  <2>3. CASE CallCreate(c) \/ NewInstance(c) \/ ReturnInstance(c)
    <3>1. Session' = Session
      BY <1>1, <2>3, SessionStays
      DEF CallCreate, NewInstance, ReturnInstance, Goto, PcOK
    <3> QED
      BY <3>1, <1>1, <2>3
      DEF CallCreate, NewInstance, ReturnInstance, Goto, PcOK, CountOK, Locked
  <2> QED
    BY <2>1, <2>2, <2>3
<1>6. CallbacksOK'
  <2>1. \A d \in Client : Joined(d)' <=> Joined(d)
    BY <1>1
    DEF CallCreate, NewInstance, ReturnInstance, InitAgain, InitFirst, Goto,
        PcOK, Joined
  <2>2. CASE NewInstance(c)
    <3>1. \A d \in Client : pc[d] \notin {"open", "closing"} /\ ~ Joined(d)
      BY <2>2 DEF NewInstance, InstOK, Joined
    <3>2. ~ (refCount > 0)
      BY <3>1, SomeSession
    <3> QED
      BY <2>1, <2>2, <3>1, <3>2
      DEF NewInstance, CallbacksOK, InService, serviceVars
  <2>3. CASE CallCreate(c) \/ ReturnInstance(c) \/ InitFirst(c) \/ InitAgain(c)
    BY <2>1, <2>3
    DEF CallCreate, ReturnInstance, InitFirst, InitAgain, CallbacksOK,
        InService, SessionOK, serviceVars, sessionVars
  <2> QED
    BY <2>2, <2>3
<1> QED
  BY <1>2, <1>3, <1>4, <1>5, <1>6

\* A client registers or leaves: callbacks_ follows it.
LEMMA ClientRegisterSession ==
  ASSUME Types, SessionInv, Disciplined, NEW c \in Client, Register(c)
  PROVE  SessionInv'
<1> USE DEF Types, TypeOK, SessionInv
<1> USE RolePlaces, Threads
<1>1. \A d \in Client \ {c} : pc'[d] = pc[d]
  BY DEF Register, RegisterMore, RegisterNoLib, RegisterBreaks, RegisterFirst,
         UnRegisterCallback, Goto, PcOK
<1>2. /\ pc[c] \in {"reg", "unreg", "undo", "cleanup"}
      /\ Locked(c) /\ rec = c /\ refCount = 0 /\ impl # 0 /\ inst[c] = impl
  BY DEF Register, RegisterMore, RegisterNoLib, RegisterBreaks, RegisterFirst,
         UnRegisterCallback, MayLeave, RecOwned, Locked, CountOK, InstOK
<1>3. OneBusy'
  BY <1>1, <1>2, BusyStays DEF Busy
<1>4. /\ UNCHANGED <<impl, alive, refCount, inst>>
      /\ pc'[c] \in {"idle", "core", "cleanup", "dwant", "destroy"}
      /\ rec' = IF pc'[c] = "idle" THEN NoOne ELSE rec
  BY <1>2
  DEF Register, RegisterMore, RegisterNoLib, RegisterBreaks, RegisterFirst,
      UnRegisterCallback, Goto, PcOK, sessionVars, lockVars
<1>5. RecOwned' /\ NobodyElse'
  BY <1>1, <1>2, <1>4 DEF RecOwned, NobodyElse, Locked
<1>6. InstOK'
  BY <1>1, <1>2, <1>4 DEF InstOK
<1>7. CountOK'
  <2>1. Session' = Session
    BY <1>1, <1>2, <1>4, SessionStays
  <2> QED
    BY <2>1, <1>1, <1>2, <1>4 DEF CountOK
<1>8. \A d \in Client \ {c} : ~ Joined(d) /\ ~ Joined(d)'
  BY <1>1, <1>2 DEF OneBusy, Busy, Joined
<1>9. impl \in Impl /\ CallbackOf(c) = impl
  BY <1>2 DEF SessionOK, Impl, CallbackOf
<1>10. CallbacksOK'
  <2>1. CASE RegisterMore(c) \/ RegisterFirst(c)
    <3>1. Joined(c)' /\ ~ Joined(c)
      BY <2>1 DEF RegisterMore, RegisterFirst, PcOK, Joined
    <3>2. callbacks' = [callbacks EXCEPT ![impl] = @ + 1] /\ impl \in intf'
      BY <1>2, <1>9, <2>1 DEF RegisterMore, RegisterFirst, Push, Stored
    <3>3. callbacks[impl] = 0
      BY <1>2, <1>8, <1>9, <3>1 DEF CallbacksOK, InService
    <3> QED
      BY <1>4, <1>9, <3>1, <3>2, <3>3
      DEF CallbacksOK, InService, ServiceOK, Impl
  <2>2. CASE UnRegisterCallback(c)
    <3>1. ~ Joined(c)'
      BY <2>2 DEF UnRegisterCallback, Goto, PcOK, Joined
    <3>2. callbacks' = [callbacks EXCEPT ![impl] = OneLess(@)]
      BY <1>9, <2>2 DEF UnRegisterCallback, Erase
    <3>3. callbacks[impl] \in {0, 1}
      BY <1>9 DEF CallbacksOK
    <3>4. ~ InService'
      BY <1>2, <1>4, <1>8, <3>1 DEF InService
    <3> QED
      BY <1>9, <3>2, <3>3, <3>4 DEF CallbacksOK, OneLess, ServiceOK, Impl
  <2>3. CASE RegisterNoLib(c) \/ RegisterBreaks(c)
    BY <1>1, <1>2, <1>4, <1>8, <2>3
    DEF RegisterNoLib, RegisterBreaks, Goto, PcOK, CallbacksOK, InService,
        Joined, serviceVars, sessionVars
  <2> QED
    BY <2>1, <2>2, <2>3 DEF Register
<1> QED
  BY <1>3, <1>5, <1>6, <1>7, <1>10

\* The end of Create, and Destroy.
LEMMA DestroySession ==
  ASSUME Types, SessionInv, Disciplined, NEW c \in Client,
         \/ CreateCoreSucceeds(c) \/ CreateCoreFails(c) \/ CallDestroy(c)
         \/ DeinitShared(c) \/ DeinitLast(c) \/ DestroyCoreSucceeds(c)
  PROVE  SessionInv'
<1> USE DEF Types, TypeOK, SessionInv
<1> USE RolePlaces, Threads
<1>1. \A d \in Client \ {c} : pc'[d] = pc[d]
  BY DEF CreateCoreSucceeds, CreateCoreFails, CallDestroy, DeinitShared,
         DeinitLast, DestroyCoreSucceeds, Goto, PcOK
<1>2. OneBusy'
  BY <1>1, BusyStays
  DEF CreateCoreSucceeds, CreateCoreFails, CallDestroy, DeinitShared,
      DeinitLast, DestroyCoreSucceeds, Busy
<1>3. RecOwned' /\ NobodyElse'
  BY <1>1
  DEF CreateCoreSucceeds, CreateCoreFails, CallDestroy, DeinitShared,
      DeinitLast, DestroyCoreSucceeds, Goto, PcOK, RecOwned, NobodyElse,
      Locked, lockVars, Thread
<1>4. InstOK'
  <2>1. CASE DestroyCoreSucceeds(c)
    <3>1. \A d \in Client : pc[d] \notin {"open", "closing"}
      BY <2>1, NoSession DEF DestroyCoreSucceeds, CountOK, Locked
    <3>2. \A d \in Client \ {c} : pc[d] = "idle"
      BY <2>1, <3>1 DEF DestroyCoreSucceeds, OneBusy, Busy
    <3> QED
      BY <1>1, <2>1, <3>2 DEF DestroyCoreSucceeds, Goto, PcOK, InstOK
  <2>2. CASE ~ DestroyCoreSucceeds(c)
    BY <1>1, <2>2
    DEF CreateCoreSucceeds, CreateCoreFails, CallDestroy, DeinitShared,
        DeinitLast, Goto, PcOK, InstOK, sessionVars
  <2> QED
    BY <2>1, <2>2
<1>5. CountOK'
  <2>1. CASE CreateCoreSucceeds(c)
    <3>1. \A d \in Client : ~ Locked(d)'
      BY <1>3, <2>1 DEF CreateCoreSucceeds, RecOwned
    <3>2. Cardinality(Session') = Cardinality(Session) + 1
      BY <2>1, SessionOpens DEF CreateCoreSucceeds
    <3> QED
      BY <2>1, <3>1, <3>2 DEF CreateCoreSucceeds, CountOK
  <2>2. CASE DeinitShared(c)
    <3>1. \A d \in Client : ~ Locked(d)'
      BY <1>3, <2>2 DEF DeinitShared, RecOwned, lockVars
    <3>2. /\ Cardinality(Session') = Cardinality(Session) - 1
          /\ refCount # 0
      BY <2>2, SessionCloses, NoSession DEF DeinitShared
    <3> QED
      BY <2>2, <3>1, <3>2 DEF DeinitShared, CountOK, OneLess
  <2>3. CASE DeinitLast(c)
    <3>1. Cardinality(Session) = 1
      BY <2>3 DEF DeinitLast, CountOK
    <3>2. Cardinality(Session') = Cardinality(Session) - 1
      BY <2>3, SessionCloses DEF DeinitLast
    <3>3. refCount' = 0 /\ Cardinality(Session') = 0
      BY <2>3, <3>1, <3>2 DEF DeinitLast
    <3> QED
      BY <3>3 DEF CountOK
  <2>4. CASE CallDestroy(c) \/ CreateCoreFails(c) \/ DestroyCoreSucceeds(c)
    <3>1. Session' = Session
      BY <1>1, <2>4, SessionStays
      DEF CallDestroy, CreateCoreFails, DestroyCoreSucceeds, Goto, PcOK
    <3> QED
      BY <3>1, <1>1, <2>4
      DEF CallDestroy, CreateCoreFails, DestroyCoreSucceeds, Goto, PcOK,
          CountOK, Locked, sessionVars
  <2> QED
    BY <2>1, <2>2, <2>3, <2>4
<1>6. CallbacksOK'
  <2>1. CASE CreateCoreSucceeds(c)
    <3>1. InService /\ InService'
      BY <2>1 DEF CreateCoreSucceeds, InService, Joined, SessionOK
    <3> QED
      BY <2>1, <3>1 DEF CreateCoreSucceeds, CallbacksOK, serviceVars
  <2>2. CASE CreateCoreFails(c)
    <3>1. InService /\ InService'
      BY <2>2 DEF CreateCoreFails, Goto, PcOK, InService, Joined
    <3> QED
      BY <2>2, <3>1 DEF CreateCoreFails, CallbacksOK, serviceVars, sessionVars
  <2>3. CASE DeinitLast(c)
    <3>1. InService /\ impl \in intf /\ inst[c] = impl
      BY <2>3 DEF DeinitLast, InService, CallbacksOK, InstOK
    <3>2. InService'
      BY <2>3, <3>1 DEF DeinitLast, Goto, PcOK, InService, Joined
    <3> QED
      BY <2>3, <3>1, <3>2 DEF DeinitLast, CallbacksOK, serviceVars
  <2>4. CASE DeinitShared(c)
    <3>1. refCount > 1
      BY <2>4, NoSession DEF DeinitShared, SessionOK
    <3>2. InService /\ InService'
      BY <2>4, <3>1 DEF DeinitShared, InService, OneLess, SessionOK
    <3> QED
      BY <2>4, <3>2 DEF DeinitShared, CallbacksOK, serviceVars
  <2>5. CASE CallDestroy(c)
    <3>1. InService' <=> InService
      BY <1>1, <2>5
      DEF CallDestroy, Goto, PcOK, InService, Joined, sessionVars
    <3> QED
      BY <2>5, <3>1 DEF CallDestroy, CallbacksOK, serviceVars, sessionVars
  <2>6. CASE DestroyCoreSucceeds(c)
    <3>1. ~ InService /\ ~ InService'
      BY <1>1, <2>6
      DEF DestroyCoreSucceeds, Goto, PcOK, InService, Joined, CountOK, Locked,
          OneBusy, Busy
    <3> QED
      BY <2>6, <3>1 DEF DestroyCoreSucceeds, CallbacksOK, serviceVars
  <2> QED
    BY <2>1, <2>2, <2>3, <2>4, <2>5, <2>6
<1> QED
  BY <1>2, <1>3, <1>4, <1>5, <1>6

\* The steps of others, and of a client inside HandlePendingCommands.
LEMMA OtherSession ==
  ASSUME Types, SessionInv,
         \/ \E d \in Daemon : CallRegister(d) \/ CallUnregister(d) \/ Register(d)
         \/ \E c \in Cmd : Send(c)
         \/ \E l \in Listener : ListenerStep(l)
         \/ \E t \in Client \cup Drain : HandlePendingCommands(t)
         \/ UNCHANGED vars
  PROVE  SessionInv'
<1> USE RolePlaces, Threads DEF Types, TypeOK, PcOK
<1>1. ASSUME NEW d \in Daemon,
             CallRegister(d) \/ CallUnregister(d) \/ Register(d)
      PROVE  SessionInv'
  <2>1. \A c \in Client : pc'[c] = pc[c]
    BY <1>1
    DEF CallRegister, CallUnregister, Register, RegisterMore, RegisterNoLib,
        RegisterBreaks, RegisterFirst, UnRegisterCallback, Goto
  <2>2. \A i \in Impl : callbacks'[i] = callbacks[i]
    <3>1. CallbackOf(d) = 0 /\ 0 \notin Impl
      BY DEF CallbackOf, Impl
    <3>2. \/ UNCHANGED callbacks
          \/ callbacks' = Push(CallbackOf(d))
          \/ callbacks' = Erase(CallbackOf(d))
      BY <1>1
      DEF CallRegister, CallUnregister, Register, RegisterMore, RegisterNoLib,
          RegisterBreaks, RegisterFirst, UnRegisterCallback, serviceVars
    <3>3. Impl \subseteq DOMAIN callbacks
      BY Bounds DEF ServiceOK, Impl
    <3>4. ASSUME NEW i \in Impl PROVE callbacks'[i] = callbacks[i]
      <4>1. i # 0 /\ i \in DOMAIN callbacks
        BY <3>1, <3>3
      <4>2. /\ Push(0)[i] = callbacks[i]
            /\ Erase(0)[i] = callbacks[i]
        BY <4>1 DEF Push, Erase
      <4> QED
        BY <3>1, <3>2, <4>2
    <3> QED
      BY <3>4
  <2>3. UNCHANGED <<rec, impl, alive, intf, refCount, inst>>
    BY <1>1
    DEF CallRegister, CallUnregister, Register, RegisterMore, RegisterNoLib,
        RegisterBreaks, RegisterFirst, UnRegisterCallback, Stored, lockVars,
        sessionVars
  <2> QED
    BY <2>1, <2>2, <2>3, SessionFrame
<1>2. CASE \E c \in Cmd : Send(c)
  BY <1>2, SessionFrame DEF Send, lockVars, sessionVars, serviceVars
<1>3. ASSUME NEW l \in Listener, ListenerStep(l)
      PROVE  SessionInv'
  <2>1. \A c \in Client : pc'[c] = pc[c]
    BY <1>3
    DEF ListenerStep, Handle, ListenerStarts, TestLoop, PollFindsPacket,
        PollFindsExit, PollFindsError, Receive, ReceiveFails,
        ReceiveNothing, HandleOther,
        HandleBadPacket, HandleByService, HandleRejects, HandleAccepts,
        HandlePostpones, Defer, Dispatch, Finish, Goto
  <2>2. UNCHANGED <<rec, sessionVars, callbacks>>
    BY <1>3
    DEF ListenerStep, Handle, ListenerStarts, TestLoop, PollFindsPacket,
        PollFindsExit, PollFindsError, Receive, ReceiveFails,
        ReceiveNothing, HandleOther,
        HandleBadPacket, HandleByService, HandleRejects, HandleAccepts,
        HandlePostpones, Defer, Dispatch, Finish, lockVars, serviceVars
  <2> QED
    BY <2>1, <2>2, SessionFrame DEF sessionVars
<1>4. ASSUME NEW t \in Client \cup Drain, HandlePendingCommands(t)
      PROVE  SessionInv'
  <2>1. \A c \in Client : pc'[c] = pc[c] \/ (Joined(c) /\ Joined(c)')
    BY <1>4
    DEF HandlePendingCommands, DrainStarts, DrainSkips, DrainFetches,
        DrainCalls, DrainEnds, Goto, Joined
  <2>2. UNCHANGED <<rec, sessionVars, callbacks>>
    BY <1>4
    DEF HandlePendingCommands, DrainStarts, DrainSkips, DrainFetches,
        DrainCalls, DrainEnds, lockVars, serviceVars
  <2> QED
    BY <2>1, <2>2, SessionFrame DEF sessionVars
<1>5. CASE UNCHANGED vars
  BY <1>5, SessionFrame DEF vars, lockVars, sessionVars, serviceVars
<1> QED
  BY <1>1, <1>2, <1>3, <1>4, <1>5

LEMMA NextSession ==
  Types /\ SessionInv /\ Disciplined /\ [Next]_vars => SessionInv'
<1> SUFFICES ASSUME Types, SessionInv, Disciplined, [Next]_vars
             PROVE  SessionInv'
  OBVIOUS
<1>1. ASSUME NEW c \in Client, CallCreate(c) \/ CallDestroy(c) \/ ClientStep(c)
      PROVE  SessionInv'
  BY <1>1, CreateSession, DestroySession
  DEF ClientStep, Disciplined, DestroyCoreFails
<1>2. ASSUME NEW c \in Client, Register(c)
      PROVE  SessionInv'
  BY <1>2, ClientRegisterSession
<1> QED
  BY <1>1, <1>2, OtherSession DEF Next, Decision

---------------------------------------------------------------------------
(* Theorems about sessions                                                 *)

\* When no Create or Destroy is under way ref_count_ counts the sessions of a
\* composer that is there and registered, although CreateCore and all of
\* RegisterCallback may fail: the count and callbacks_ are undone together.
THEOREM SessionsAreBacked ==
  ASSUME Disciplined
  PROVE  Spec => []SessionBacked
<1>1. Init => Types /\ SessionInv
  BY InitTypes, InitSessionInv
<1>2. Types /\ SessionInv /\ [Next]_vars => Types' /\ SessionInv'
  BY NextTypes, NextSession, Disciplined
<1>3. Types /\ SessionInv => SessionBacked
  <2> SUFFICES ASSUME Types, SessionInv, rec = NoOne PROVE SessionBacked
    BY DEF SessionBacked
  <2>1. InService <=> refCount > 0
    BY RolePlaces, Threads
    DEF InService, SessionInv, RecOwned, Joined, Locked
  <2>2. refCount > 0 => impl # 0 /\ impl \in alive
    BY SomeSession DEF SessionInv, InstOK
  <2>3. impl # 0 => impl \in Impl
    BY DEF Types, TypeOK, SessionOK, Impl
  <2> QED
    BY <2>1, <2>2, <2>3
    DEF SessionBacked, SessionInv, CallbacksOK, Registered, Types, TypeOK,
        SessionOK
<1> QED
  BY <1>1, <1>2, <1>3, PTL DEF Spec

LEMMA InitDispatch == Init => DispatchOK
  BY Threads DEF Init, DispatchOK, Thread

\* callbacks_ changes only under qrtr_lock_.
LEMMA NextDispatch ==
  Types /\ OneListener /\ DispatchOK /\ [Next]_vars => DispatchOK'
<1> SUFFICES ASSUME Types, OneListener, DispatchOK, [Next]_vars
             PROVE  DispatchOK'
  OBVIOUS
<1> USE RolePlaces, Threads DEF Types, TypeOK, PcOK, DispatchOK
<1>1. ASSUME NEW t \in Client \cup Daemon, Register(t)
      PROVE  DispatchOK'
  BY <1>1
  DEF Register, RegisterMore, RegisterNoLib, RegisterBreaks, RegisterFirst,
      UnRegisterCallback, MayLeave, Goto, lockVars, workVars, Registered,
      LocksOK
<1>2. CASE Decision
  BY <1>2
  DEF Decision, CallCreate, CallDestroy, CallRegister, CallUnregister, Send,
      Goto, lockVars, workVars, serviceVars, Registered
<1>3. ASSUME NEW c \in Client, ClientStep(c)
      PROVE  DispatchOK'
  BY <1>3
  DEF ClientStep, NewInstance, ReturnInstance, InitAgain, InitFirst,
      CreateCoreSucceeds, CreateCoreFails, DeinitShared, DeinitLast,
      DestroyCoreSucceeds, DestroyCoreFails, Goto, lockVars, workVars,
      serviceVars, Registered
<1>4. ASSUME NEW l \in Listener, ListenerStep(l)
      PROVE  DispatchOK'
  <2>1. \A k \in Listener \ {l} : pc[k] = "off" /\ pc'[k] = "off"
    BY <1>4
    DEF OneListener, ListenerStep, Handle, ListenerStarts, TestLoop,
        PollFindsPacket, PollFindsExit, PollFindsError, Receive, ReceiveFails,
        ReceiveNothing,
        HandleOther, HandleBadPacket, HandleByService, HandleRejects,
        HandleAccepts, HandlePostpones, Defer, Dispatch, Finish, Goto
  <2>2. CASE HandleAccepts(l)
    BY <2>1, <2>2 DEF HandleAccepts, Goto, WorkOK, Registered, serviceVars
  <2>3. CASE Dispatch(l)
    BY <2>1, <2>3
    DEF Dispatch, HandOver, Goto, WorkOK, Registered, serviceVars, QrtrUnlocked
  <2>4. CASE ~ HandleAccepts(l) /\ ~ Dispatch(l)
    BY <1>4, <2>1, <2>4
    DEF ListenerStep, Handle, ListenerStarts, TestLoop, PollFindsPacket,
        PollFindsExit, PollFindsError, Receive, ReceiveFails,
        ReceiveNothing, HandleOther,
        HandleBadPacket, HandleByService, HandleRejects, HandlePostpones,
        Defer, Finish, Goto
  <2> QED
    BY <2>2, <2>3, <2>4
<1>5. ASSUME NEW t \in Client \cup Drain, HandlePendingCommands(t)
      PROVE  DispatchOK'
  <2>1. \A l \in Listener : pc'[l] = pc[l] /\ pass'[l] = pass[l]
    BY <1>5
    DEF HandlePendingCommands, DrainStarts, DrainSkips, DrainFetches,
        DrainCalls, DrainEnds, HandOver, Goto, WorkOK, workVars
  <2>2. UNCHANGED callbacks /\ (qrtr' = qrtr \/ qrtr = t)
    BY <1>5
    DEF HandlePendingCommands, DrainStarts, DrainSkips, DrainFetches,
        DrainCalls, DrainEnds, lockVars, serviceVars, QrtrUnlocked
  <2> QED
    BY <2>1, <2>2 DEF Registered
<1>6. CASE UNCHANGED vars
  BY <1>6 DEF vars, lockVars, workVars, serviceVars, Registered
<1> QED
  BY <1>1, <1>2, <1>3, <1>4, <1>5, <1>6 DEF Next

\* The listener never calls a composer that a client has deleted: what it has
\* still to call is registered, and what is registered is the composer of the
\* sessions.
THEOREM ListenersCallLive ==
  ASSUME Disciplined
  PROVE  Spec => []ListenerCallsLiveComposer
<1>1. Init => Types /\ SessionInv /\ DispatchOK
  BY InitTypes, InitSessionInv, InitDispatch
<1>2. Types /\ SessionInv /\ DispatchOK /\ OneListener /\ [Next]_vars
        => Types' /\ SessionInv' /\ DispatchOK'
  BY NextTypes, NextSession, NextDispatch, Disciplined
<1>3. Types /\ SessionInv /\ DispatchOK => ListenerCallsLiveComposer
  <2> SUFFICES ASSUME Types, SessionInv, DispatchOK
               PROVE  ListenerCallsLiveComposer
    OBVIOUS
  <2>1. \A i \in Registered : i = impl /\ i # 0
    BY DEF SessionInv, CallbacksOK, Registered, Impl
  <2> QED
    BY <2>1 DEF DispatchOK, ListenerCallsLiveComposer, SessionInv, InstOK
<1> QED
  BY <1>1, <1>2, <1>3, SingleListener, PTL DEF Spec

---------------------------------------------------------------------------
(* The sessions implement SharedResources                                  *)

\* A step opens a session of sdm_comp_impl_, closes one, or leaves both alone;
\* without sessions sdm_comp_impl_ may change.
Opens(c) == c \notin Session /\ Session' = Session \cup {c} /\ impl' = impl
Closes(c) == c \in Session /\ Session' = Session \ {c} /\ impl' = impl
LeavesOpen == Session' = Session /\ (Session = {} \/ impl' = impl)

\* What the abstract variables are: those who have a session have it of
\* sdm_comp_impl_, which is there for others as soon as somebody has one.
SharedAs ==
    /\ ComposerThere = IF Session = {} THEN {} ELSE {impl}
    /\ SessionsOf = [i \in Impl |-> IF i = impl THEN Session ELSE {}]
    /\ Session # {} => impl \in Impl
LEMMA SharingOf == Types /\ SessionInv => SharedAs
<1> SUFFICES ASSUME Types, SessionInv PROVE SharedAs
  OBVIOUS
<1>1. InService /\ rec = NoOne <=> Session # {}
  <2>1. refCount > 0 <=> Session # {}
    BY SessionFinite, FS_EmptySet, SomeSession, NoSession
    DEF SessionInv, CountOK, Types, TypeOK, SessionOK, Session
  <2>2. refCount > 0 => rec = NoOne
    BY Bounds DEF SessionInv, CountOK, RecOwned, NobodyElse
  <2>3. rec = NoOne => \A c \in Client : ~ Joined(c)
    BY RolePlaces, Threads DEF SessionInv, RecOwned, Joined, Locked
  <2> QED
    BY <2>1, <2>2, <2>3 DEF InService
<1>2. \A c \in Session : inst[c] = impl /\ impl \in alive
  BY DEF SessionInv, InstOK, Session
<1>3. Session # {} => impl \in Impl
  BY <1>2 DEF Types, TypeOK, SessionOK
<1>4. ComposerThere = IF Session = {} THEN {} ELSE {impl}
  <2>1. CASE Session = {}
    <3>1. rec = NoOne => Registered = {}
      BY <1>1, <2>1 DEF SessionInv, CallbacksOK, Registered
    <3> QED
      BY <3>1, <2>1 DEF ComposerThere
  <2>2. CASE Session # {}
    <3>1. Registered = {impl}
      BY <1>1, <1>3, <2>2 DEF SessionInv, CallbacksOK, Registered
    <3> QED
      BY <1>1, <1>2, <3>1, <2>2 DEF ComposerThere
  <2> QED
    BY <2>1, <2>2
<1>5. ASSUME NEW i \in Impl
      PROVE  {c \in Client : /\ pc[c] \in {"open", "closing"}
                             /\ inst[c] = i}
                = IF i = impl THEN Session ELSE {}
  BY <1>2 DEF Session
<1> QED
  BY <1>3, <1>4, <1>5 DEF SessionsOf, SharedAs

\* Every step of the service is one of these.
LEMMA SessionSteps ==
  ASSUME Types, SessionInv, Disciplined, [Next]_vars
  PROVE  LeavesOpen \/ \E c \in Client : Opens(c) \/ Closes(c)
<1> USE RolePlaces, Threads DEF Types, TypeOK, PcOK
<1>1. ASSUME NEW c \in Client, InitAgain(c) \/ CreateCoreSucceeds(c)
      PROVE  Opens(c)
  BY <1>1 DEF InitAgain, CreateCoreSucceeds, Goto, Opens, Session
<1>2. ASSUME NEW c \in Client, DeinitShared(c) \/ DeinitLast(c)
      PROVE  Closes(c)
  BY <1>2 DEF DeinitShared, DeinitLast, Goto, Closes, Session
<1>3. ASSUME NEW c \in Client, NewInstance(c) \/ DestroyCoreSucceeds(c)
      PROVE  LeavesOpen
  <2>1. Session' = Session
    BY <1>3, SessionStays DEF NewInstance, DestroyCoreSucceeds, Goto
  <2>2. \A d \in Client : pc[d] \notin {"open", "closing"}
    BY <1>3, NoSession
    DEF NewInstance, DestroyCoreSucceeds, SessionInv, InstOK, CountOK, Locked
  <2> QED
    BY <2>1, <2>2 DEF LeavesOpen, Session
<1>4. ASSUME NEW c \in Client,
             \/ CallCreate(c) \/ CallDestroy(c) \/ ReturnInstance(c)
             \/ InitFirst(c) \/ CreateCoreFails(c)
      PROVE  LeavesOpen
  <2>1. Session' = Session
    BY <1>4, SessionStays
    DEF CallCreate, CallDestroy, ReturnInstance, InitFirst, CreateCoreFails,
        Goto
  <2> QED
    BY <1>4, <2>1
    DEF CallCreate, CallDestroy, ReturnInstance, InitFirst, CreateCoreFails,
        sessionVars, LeavesOpen
<1>5. ASSUME NEW c \in Client, Register(c)
      PROVE  LeavesOpen
  <2>1. Session' = Session
    BY <1>5, SessionStays
    DEF Register, RegisterMore, RegisterNoLib, RegisterBreaks, RegisterFirst,
        UnRegisterCallback, MayLeave, Goto
  <2> QED
    BY <1>5, <2>1
    DEF Register, RegisterMore, RegisterNoLib, RegisterBreaks, RegisterFirst,
        UnRegisterCallback, sessionVars, LeavesOpen
<1>6. ASSUME \/ \E d \in Daemon : \/ CallRegister(d) \/ CallUnregister(d)
                                  \/ Register(d)
             \/ \E c \in Cmd : Send(c)
             \/ \E l \in Listener : ListenerStep(l)
             \/ \E t \in Client \cup Drain : HandlePendingCommands(t)
             \/ UNCHANGED vars
      PROVE  LeavesOpen
  <2>1. impl' = impl
    BY <1>6
    DEF CallRegister, CallUnregister, Register, RegisterMore, RegisterNoLib,
        RegisterBreaks, RegisterFirst, UnRegisterCallback, Send, ListenerStep,
        Handle, ListenerStarts, TestLoop, PollFindsPacket, PollFindsExit,
        PollFindsError, Receive, ReceiveFails,
        ReceiveNothing, HandleOther, HandleBadPacket,
        HandleByService, HandleRejects, HandleAccepts, HandlePostpones, Defer,
        Dispatch, Finish, HandlePendingCommands, DrainStarts, DrainSkips,
        DrainFetches, DrainCalls, DrainEnds, vars, sessionVars
  <2>2. \A c \in Client : pc'[c] \in {"open", "closing"}
                             <=> pc[c] \in {"open", "closing"}
    <3>1. ASSUME NEW d \in Daemon,
                 CallRegister(d) \/ CallUnregister(d) \/ Register(d)
          PROVE  \A c \in Client : pc'[c] = pc[c]
      BY <3>1
      DEF CallRegister, CallUnregister, Register, RegisterMore, RegisterNoLib,
          RegisterBreaks, RegisterFirst, UnRegisterCallback, Goto
    <3>2. ASSUME NEW l \in Listener, ListenerStep(l)
          PROVE  \A c \in Client : pc'[c] = pc[c]
      BY <3>2
      DEF ListenerStep, Handle, ListenerStarts, TestLoop, PollFindsPacket,
          PollFindsExit, PollFindsError, Receive, ReceiveFails,
          ReceiveNothing, HandleOther,
          HandleBadPacket, HandleByService, HandleRejects, HandleAccepts,
          HandlePostpones, Defer, Dispatch, Finish, Goto
    <3>3. ASSUME NEW t \in Client \cup Drain, HandlePendingCommands(t)
          PROVE  \A c \in Client : pc'[c] = pc[c]
                                      \/ (Joined(c) /\ Joined(c)')
      BY <3>3
      DEF HandlePendingCommands, DrainStarts, DrainSkips, DrainFetches,
          DrainCalls, DrainEnds, Goto, Joined
    <3> QED
      BY <1>6, <3>1, <3>2, <3>3 DEF Send, vars, Joined
  <2> QED
    BY <2>1, <2>2, SessionStays DEF LeavesOpen
<1> QED
  BY <1>1, <1>2, <1>3, <1>4, <1>5, <1>6
  DEF Next, Decision, ClientStep, DestroyCoreFails, Disciplined

\* The composer is shared as SharedResources says: the first Create makes it,
\* the others join the same one, and the last Destroy takes it away, with any
\* failure in Create taken back.
THEOREM SessionsAreShared ==
  ASSUME Disciplined
  PROVE  Spec => SessionsShared
<1>1. Init => Types /\ SessionInv
  BY InitTypes, InitSessionInv
<1>2. Types /\ SessionInv /\ [Next]_vars => Types' /\ SessionInv'
  BY NextTypes, NextSession, Disciplined
<1>3. Init => Sharing!Init
  BY Threads
  DEF Init, Sharing!Init, ComposerThere, SessionsOf, Registered, Impl, Thread
<1>4. Types /\ SessionInv => SharedAs
  BY SharingOf
<1>5. Types /\ SessionInv /\ SharedAs /\ SharedAs' /\ [Next]_vars
        => [Sharing!Next]_(Sharing!resourceVars)
  <2> SUFFICES ASSUME Types, SessionInv, SharedAs, SharedAs', [Next]_vars
               PROVE  [Sharing!Next]_(Sharing!resourceVars)
    OBVIOUS
  <2> USE DEF SharedAs
  <2>1. CASE LeavesOpen
    BY <2>1 DEF LeavesOpen, Sharing!resourceVars
  <2>2. ASSUME NEW c \in Client, Opens(c)
        PROVE  Sharing!Acquire(c, impl) /\ impl \in Impl
    BY <2>2 DEF Opens, Sharing!Acquire
  <2>3. ASSUME NEW c \in Client, Closes(c)
        PROVE  Sharing!Release(c, impl) /\ impl \in Impl
    BY <2>3 DEF Closes, Sharing!Release
  <2> QED
    BY <2>1, <2>2, <2>3, SessionSteps, Disciplined DEF Sharing!Next
<1> QED
  BY <1>1, <1>2, <1>3, <1>4, <1>5, PTL DEF Spec, SessionsShared, Sharing!Spec

---------------------------------------------------------------------------
(* The commands                                                            *)

LEMMA InitCommand == Init => CommandInv
  BY Threads
  DEF Init, CommandInv, PendOwned, ListenerHas, Listening, DrainHas, InboxOK,
      PendingOK, Unsent, HandedOnce, Thread

\* callbacks_ has at most one composer.
LEMMA OneRegistered == SessionInv => \A i, j \in Registered : i = j
  BY DEF SessionInv, CallbacksOK, Registered

\* A step that leaves the packets, and the work of every thread, as they are.
LEMMA CommandFrame ==
  ASSUME CommandInv,
         UNCHANGED <<packetVars, workVars, pend>>,
         \A l \in Listener : \/ pc'[l] = pc[l] \/ ~ Listening(l)'
                             \/ pc[l] = "got" /\ pc'[l] = "defer",
         \A t \in Client \cup Drain : \/ pc'[t] = pc[t]
                                      \/ /\ pc[t] \notin {"drain", "call"}
                                         /\ pc'[t] \notin {"drain", "call"}
  PROVE  CommandInv'
<1> USE DEF CommandInv, packetVars, workVars
<1>1. PendOwned'
  BY DEF PendOwned
<1>2. ListenerHas'
  BY DEF ListenerHas, Listening, OnePass
<1>3. DrainHas'
  BY DEF DrainHas, OnePass
<1>4. InboxOK' /\ PendingOK' /\ Unsent' /\ HandedOnce'
  BY DEF InboxOK, PendingOK, Unsent, HandedOnce
<1> QED
  BY <1>1, <1>2, <1>3, <1>4

\* A packet that nobody has sent is sent.
LEMMA SendCommand ==
  ASSUME Types, CommandInv, NEW c \in Cmd, Send(c)
  PROVE  CommandInv'
<1> USE DEF Types, TypeOK, PacketsOK, CommandInv
<1>1. /\ inbox' = Append(inbox, c) /\ inbox \in Seq(Cmd)
      /\ fate' = [fate EXCEPT ![c] = "sent"] /\ fate[c] = "unsent"
      /\ UNCHANGED <<pc, pend, workVars, pending, given>>
  BY DEF Send, lockVars
<1>2. /\ Len(inbox') = Len(inbox) + 1
      /\ \A k \in 1 .. Len(inbox) : inbox'[k] = inbox[k]
      /\ inbox'[Len(inbox) + 1] = c
      /\ \A k \in 1 .. Len(inbox) : inbox[k] # c
      /\ \A k \in 1 .. Len(pending) : pending[k] # c
      /\ given[c] = 0
  BY <1>1 DEF InboxOK, PendingOK, Unsent
<1>3. ListenerHas'
  BY <1>1, <1>2 DEF ListenerHas, Listening, OnePass, workVars
<1>4. InboxOK'
  <2>1. Len(inbox) \in Nat
    BY <1>1
  <2>2. \A k \in 1 .. Len(inbox') :
           \/ k \in 1 .. Len(inbox) /\ inbox'[k] = inbox[k] /\ inbox'[k] # c
           \/ k = Len(inbox) + 1 /\ inbox'[k] = c
    BY <1>2, <2>1
  <2>3. \A k \in 1 .. Len(inbox) : inbox[k] \in Cmd
    BY <1>1
  <2>4. \A k, m \in 1 .. Len(inbox') : inbox'[k] = inbox'[m] => k = m
    BY <2>2 DEF InboxOK
  <2>5. ASSUME NEW k \in 1 .. Len(inbox')
        PROVE  /\ fate'[inbox'[k]] # "unsent" /\ given'[inbox'[k]] = 0
               /\ \A m \in 1 .. Len(pending') : pending'[m] # inbox'[k]
    BY <1>1, <1>2, <2>2, <2>3 DEF InboxOK
  <2> QED
    BY <2>4, <2>5 DEF InboxOK
<1>5. PendingOK'
  <2>1. /\ pending' = pending /\ pend' = pend /\ todo' = todo /\ given' = given
    BY <1>1 DEF workVars
  <2>2. \A k \in 1 .. Len(pending) : pending[k] # c => fate'[pending[k]] = fate[pending[k]]
    BY <1>1
  <2>3. \A k \in 1 .. Len(pending) : fate'[pending[k]] # "unsent"
    BY <1>2, <2>2 DEF PendingOK
  <2> QED
    BY <2>1, <2>3 DEF PendingOK
<1>6. PendOwned' /\ DrainHas' /\ Unsent' /\ HandedOnce'
  BY <1>1, <1>2 DEF PendOwned, DrainHas, OnePass, Unsent, HandedOnce, workVars
<1> QED
  BY <1>3, <1>4, <1>5, <1>6

\* The last registration goes, and what is in the socket with it.
LEMMA UnregisterCommand ==
  ASSUME Types, CommandInv, NEW t \in Client \cup Daemon, UnRegisterCallback(t)
  PROVE  CommandInv'
<1> USE RolePlaces, Threads DEF Types, TypeOK, PcOK, PacketsOK, CommandInv
<1>1. /\ UNCHANGED <<pend, workVars, pending, given>>
      /\ pc' \in {[pc EXCEPT ![t] = "destroy"], [pc EXCEPT ![t] = "idle"]}
      /\ pc[t] \in {"unreg", "undo", "cleanup"}
  BY DEF UnRegisterCallback, MayLeave, Goto
<1>2. inbox' \in {inbox, <<>>}
  BY DEF UnRegisterCallback
<1>3. \A c \in Cmd : fate'[c] = "unsent" => fate[c] = "unsent"
  BY DEF UnRegisterCallback
<1>4. \A l \in Listener : pc'[l] = pc[l]
  BY <1>1
<1>5. \A d \in Thread : pc'[d] \in {"drain", "call"} <=> pc[d] \in {"drain", "call"}
  BY <1>1
<1>6. \A d \in Thread : pc'[d] = "call" <=> pc[d] = "call"
  BY <1>1
<1>7. ListenerHas'
  BY <1>1, <1>2, <1>3, <1>4
  DEF ListenerHas, Listening, OnePass, workVars, HasCommand
<1>8. InboxOK'
  <2>1. CASE inbox' = inbox
    BY <1>1, <1>3, <2>1 DEF InboxOK
  <2>2. CASE inbox' = <<>>
    BY <2>2 DEF InboxOK
  <2> QED
    BY <1>2, <2>1, <2>2
<1>9. PendingOK'
  BY <1>1, <1>3 DEF PendingOK, workVars
<1>10. PendOwned' /\ DrainHas'
  BY <1>1, <1>5, <1>6 DEF PendOwned, DrainHas, OnePass, workVars
<1>11. Unsent' /\ HandedOnce'
  BY <1>1, <1>3 DEF Unsent, HandedOnce
<1> QED
  BY <1>7, <1>8, <1>9, <1>10, <1>11

\* What the listener takes from the socket is nowhere else.
LEMMA ReceiveCommand ==
  ASSUME Types, OneListener, CommandInv, NEW l \in Listener, Receive(l)
  PROVE  CommandInv'
<1> USE RolePlaces, Threads DEF Types, TypeOK, PcOK, PacketsOK, CommandInv
<1>1. /\ inbox # <<>> /\ inbox \in Seq(Cmd)
      /\ inbox' = Tail(inbox)
      /\ cmd' = [cmd EXCEPT ![l] = inbox[1]]
      /\ pc' = [pc EXCEPT ![l] = "got"] /\ pc[l] = "recv"
      /\ UNCHANGED <<pend, pass, todo, pending, fate, given>>
  BY DEF Receive, Goto, lockVars
<1>2. /\ Len(inbox) \in Nat \ {0}
      /\ Len(inbox') = Len(inbox) - 1
      /\ \A k \in 1 .. Len(inbox') :
            k + 1 \in 1 .. Len(inbox) /\ inbox'[k] = inbox[k + 1]
  BY <1>1
<1>3. \A k \in Listener \ {l} : pc'[k] = "off"
  BY <1>1 DEF OneListener
<1>4. cmd'[l] = inbox[1]
  BY <1>1 DEF WorkOK
<1>6. 1 \in 1 .. Len(inbox)
  BY <1>2
<1>5. ASSUME NEW k \in 1 .. Len(inbox')
      PROVE  inbox'[k] # inbox[1]
  <2>1. k + 1 \in 1 .. Len(inbox) /\ k + 1 # 1 /\ inbox'[k] = inbox[k + 1]
    BY <1>2
  <2> QED
    BY <1>6, <2>1 DEF InboxOK
<1>7. ListenerHas'
  <2>1. /\ fate[inbox[1]] # "unsent" /\ given[inbox[1]] = 0
        /\ \A m \in 1 .. Len(pending) : pending[m] # inbox[1]
    BY <1>6 DEF InboxOK
  <2> QED
    BY <1>1, <1>3, <1>4, <1>5, <2>1 DEF ListenerHas, Listening
<1>8. InboxOK'
  <2>1. ASSUME NEW k \in 1 .. Len(inbox'), NEW m \in 1 .. Len(inbox'),
               inbox'[k] = inbox'[m]
        PROVE  k = m
    <3>1. /\ k + 1 \in 1 .. Len(inbox) /\ m + 1 \in 1 .. Len(inbox)
          /\ inbox[k + 1] = inbox[m + 1]
      BY <1>2, <2>1
    <3>2. k + 1 = m + 1
      BY <3>1 DEF InboxOK
    <3> QED
      BY <3>2, <1>2
  <2>2. ASSUME NEW k \in 1 .. Len(inbox')
        PROVE  /\ fate'[inbox'[k]] # "unsent" /\ given'[inbox'[k]] = 0
               /\ \A m \in 1 .. Len(pending') : pending'[m] # inbox'[k]
    <3>1. k + 1 \in 1 .. Len(inbox) /\ inbox'[k] = inbox[k + 1]
      BY <1>2
    <3> QED
      BY <1>1, <3>1 DEF InboxOK
  <2> QED
    BY <2>1, <2>2 DEF InboxOK
<1>9. PendingOK' /\ Unsent' /\ HandedOnce'
  BY <1>1 DEF PendingOK, Unsent, HandedOnce
<1>10. PendOwned' /\ DrainHas'
  BY <1>1 DEF PendOwned, DrainHas, OnePass, WorkOK
<1> QED
  BY <1>7, <1>8, <1>9, <1>10

\* An answer on the spot.
LEMMA FinishCommand ==
  ASSUME Types, CommandInv, NEW l \in Listener, pc[l] = "got",
         NEW status, Finish(l, status)
  PROVE  CommandInv'
<1> USE RolePlaces, Threads DEF Types, TypeOK, PcOK, PacketsOK, CommandInv
<1>1. /\ UNCHANGED <<pend, workVars, pending, inbox, given>>
      /\ pc' = [pc EXCEPT ![l] = "loop"]
      /\ fate' = [fate EXCEPT ![cmd[l]] = "done"]
  BY DEF Finish, Goto, lockVars
<1>2. \A c \in Cmd : fate'[c] = "unsent" => fate[c] = "unsent"
  BY <1>1
<1>3. \A t \in Client \cup Drain : pc'[t] = pc[t]
  BY <1>1
<1>4. ListenerHas'
  BY <1>1, <1>2 DEF ListenerHas, Listening, OnePass, workVars, HasCommand
<1>5. InboxOK' /\ PendingOK'
  BY <1>1, <1>2 DEF InboxOK, PendingOK, workVars
<1>6. PendOwned' /\ DrainHas'
  BY <1>1, <1>3 DEF PendOwned, DrainHas, OnePass, workVars
<1>7. Unsent' /\ HandedOnce'
  BY <1>1, <1>2 DEF Unsent, HandedOnce
<1> QED
  BY <1>4, <1>5, <1>6, <1>7

\* The loop over callbacks_ begins, with at most one composer in it.
LEMMA AcceptCommand ==
  ASSUME Types, OneListener, SessionInv, CommandInv,
         NEW l \in Listener, HandleAccepts(l)
  PROVE  CommandInv'
<1> USE RolePlaces, Threads DEF Types, TypeOK, PcOK, CommandInv
<1>1. /\ UNCHANGED <<pend, todo, cmd, packetVars>>
      /\ pc' = [pc EXCEPT ![l] = "dispatch"] /\ pc[l] = "got"
      /\ pass' = [pass EXCEPT ![l] = Registered]
  BY DEF HandleAccepts, Goto
<1>2. pass'[l] = Registered /\ \A t \in Thread \ {l} : pass'[t] = pass[t]
  BY <1>1 DEF WorkOK
<1>3. \A k \in Listener \ {l} : pc'[k] = "off"
  BY <1>1 DEF OneListener
<1>4. ListenerHas'
  BY <1>1, <1>2, <1>3, OneRegistered
  DEF ListenerHas, Listening, OnePass, packetVars
<1>5. PendOwned' /\ DrainHas'
  BY <1>1, <1>2 DEF PendOwned, DrainHas, OnePass, packetVars
<1>6. InboxOK' /\ PendingOK' /\ Unsent' /\ HandedOnce'
  BY <1>1 DEF InboxOK, PendingOK, Unsent, HandedOnce, packetVars
<1> QED
  BY <1>4, <1>5, <1>6

\* What is put off was in nobody's hands but the listener's.
LEMMA DeferCommand ==
  ASSUME Types, OneListener, CommandInv, NEW l \in Listener, Defer(l)
  PROVE  CommandInv'
<1> USE RolePlaces, Threads DEF Types, TypeOK, PcOK, PacketsOK, CommandInv
<1> DEFINE c == cmd[l]
<1>1. /\ pc[l] = "defer" /\ pend = NoOne
      /\ pending' = Append(pending, c) /\ pending \in Seq(Cmd)
      /\ fate' = [fate EXCEPT ![c] = "deferred"]
      /\ pc' = [pc EXCEPT ![l] = "loop"]
      /\ UNCHANGED <<pend, workVars, inbox, given>>
  BY DEF Defer, Postponed, Goto
<1>2. /\ c \in Cmd /\ given[c] = 0
      /\ \A k \in 1 .. Len(inbox) : inbox[k] # c
      /\ \A k \in 1 .. Len(pending) : pending[k] # c
  BY <1>1 DEF HasCommand, ListenerHas, Listening
<1> HIDE DEF c
<1>3. /\ Len(pending) \in Nat /\ Len(pending') = Len(pending) + 1
      /\ \A k \in 1 .. Len(pending') :
            \/ /\ k \in 1 .. Len(pending) /\ pending'[k] = pending[k]
               /\ pending[k] \in Cmd /\ pending'[k] # c
            \/ k = Len(pending) + 1 /\ pending'[k] = c
  BY <1>1, <1>2
<1>4. \A d \in Cmd : fate'[d] = "unsent" => fate[d] = "unsent"
  BY <1>1
<1>5. ListenerHas'
  BY <1>1 DEF OneListener, ListenerHas, Listening
<1>6. InboxOK'
  <2>1. ASSUME NEW k \in 1 .. Len(inbox')
        PROVE  /\ fate'[inbox'[k]] # "unsent" /\ given'[inbox'[k]] = 0
               /\ \A m \in 1 .. Len(pending') : pending'[m] # inbox'[k]
    <3>1. inbox' = inbox /\ inbox[k] \in Cmd /\ inbox[k] # c
      BY <1>1, <1>2
    <3>2. \A m \in 1 .. Len(pending') : pending'[m] # inbox[k]
      BY <1>3, <3>1 DEF InboxOK
    <3> QED
      BY <1>1, <1>4, <3>1, <3>2 DEF InboxOK
  <2> QED
    BY <1>1, <2>1 DEF InboxOK
<1>7. PendingOK'
  <2>1. \A k, m \in 1 .. Len(pending') : pending'[k] = pending'[m] => k = m
    BY <1>3 DEF PendingOK
  <2>2. ASSUME NEW k \in 1 .. Len(pending')
        PROVE  fate'[pending'[k]] # "unsent" /\ given'[pending'[k]] = 0
    BY <1>1, <1>2, <1>3, <1>4 DEF PendingOK
  <2> QED
    BY <2>1, <2>2 DEF PendingOK
<1>8. PendOwned' /\ DrainHas'
  BY <1>1 DEF PendOwned, DrainHas, DrainOwns
<1>9. Unsent' /\ HandedOnce'
  BY <1>1, <1>4 DEF Unsent, HandedOnce
<1> QED
  BY <1>5, <1>6, <1>7, <1>8, <1>9

\* The only composer of the loop gets the command.
LEMMA DispatchCommand ==
  ASSUME Types, OneListener, CommandInv, NEW l \in Listener, Dispatch(l)
  PROVE  CommandInv'
<1> USE RolePlaces, Threads DEF Types, TypeOK, PcOK, PacketsOK, CommandInv
<1> DEFINE c == cmd[l]
<1>1. PICK r \in pass[l] : HandOver(l, r, c)
  BY DEF Dispatch
<1>2. /\ c \in Cmd /\ given[c] = 0 /\ pass[l] = {r}
      /\ \A k \in 1 .. Len(inbox) : inbox[k] # c
      /\ \A k \in 1 .. Len(pending) : pending[k] # c
  BY <1>1 DEF Dispatch, HasCommand, ListenerHas, Listening, OnePass
<1>3. /\ given' = [given EXCEPT ![c] = @ + 1]
      /\ fate' = [fate EXCEPT ![c] = "reached"]
      /\ pass' = [pass EXCEPT ![l] = {}]
  BY <1>1, <1>2 DEF HandOver
<1>4. /\ pc[l] = "dispatch" /\ pc' = [pc EXCEPT ![l] = "loop"]
      /\ UNCHANGED <<pend, todo, cmd, pending, inbox>>
  BY <1>3 DEF Dispatch, Goto, WorkOK
<1> HIDE DEF c
<1>5. /\ given'[c] = 1
      /\ \A d \in Cmd \ {c} : given'[d] = given[d]
      /\ \A d \in Cmd : fate'[d] = "unsent" => fate[d] = "unsent" /\ d # c
  BY <1>2, <1>3
<1>6. \A t \in Thread \ {l} : pass'[t] = pass[t] /\ pc'[t] = pc[t]
  BY <1>3, <1>4 DEF WorkOK
<1>7. ListenerHas'
  BY <1>4 DEF OneListener, ListenerHas, Listening
<1>8. InboxOK'
  <2>1. \A k \in 1 .. Len(inbox) : inbox[k] \in Cmd \ {c}
    BY <1>2
  <2> QED
    BY <1>4, <1>5, <2>1 DEF InboxOK
<1>9. /\ PendingOK' /\ \A k \in 1 .. Len(pending) : pending[k] \in Cmd \ {c}
  <2>1. \A k \in 1 .. Len(pending) : pending[k] \in Cmd \ {c}
    BY <1>2
  <2> QED
    BY <1>4, <1>5, <2>1 DEF PendingOK
<1>10. PendOwned'
  BY <1>4 DEF PendOwned
<1>11. DrainHas'
  <2>1. ASSUME NEW t \in Client \cup Drain, pc'[t] = "call"
        PROVE  OnePass(t)' /\ \E k \in (1 .. Len(pending')) \ todo'[t] :
                                pending'[k] = cmd'[t]
    <3>1. t \in Thread \ {l}
      OBVIOUS
    <3>2. pc[t] = "call" /\ pass'[t] = pass[t]
      BY <1>6, <2>1, <3>1
    <3>3. given'[cmd[t]] = given[cmd[t]]
      BY <1>5, <1>9, <3>2 DEF DrainHas
    <3> QED
      BY <1>4, <3>2, <3>3 DEF DrainHas, OnePass
  <2> QED
    BY <2>1 DEF DrainHas
<1>12. Unsent'
  BY <1>5 DEF Unsent
<1>13. HandedOnce'
  <2>1. \A d \in Cmd : given[d] <= 1
    BY DEF HandedOnce
  <2> QED
    BY <1>5, <2>1 DEF HandedOnce
<1> QED
  BY <1>7, <1>8, <1>9, <1>10, <1>11, <1>12, <1>13

\* A drain begins: nothing that is pending was handed over.
LEMMA DrainStartsCommand ==
  ASSUME Types, CommandInv, NEW t \in Client \cup Drain, DrainStarts(t)
  PROVE  CommandInv'
<1> USE RolePlaces, Threads DEF Types, TypeOK, PcOK, CommandInv
<1>1. /\ pend = NoOne /\ pend' = t /\ pc' = [pc EXCEPT ![t] = "drain"]
      /\ UNCHANGED <<pass, cmd, packetVars>>
  BY DEF DrainStarts, Goto
<1>2. \A d \in Client \cup Drain : pc[d] # "call"
  BY <1>1 DEF DrainOwns
<1>3. \A l \in Listener : pc'[l] = pc[l]
  BY <1>1
<1>4. \A d \in Client \cup Drain : pc'[d] # "call"
  BY <1>1, <1>2
<1>5. ListenerHas'
  BY <1>1, <1>3 DEF ListenerHas, Listening, OnePass, packetVars
<1>6. PendOwned' /\ DrainHas'
  BY <1>1, <1>4 DEF PendOwned, DrainHas
<1>7. InboxOK' /\ PendingOK' /\ Unsent' /\ HandedOnce'
  BY <1>1 DEF InboxOK, PendingOK, Unsent, HandedOnce, packetVars
<1> QED
  BY <1>5, <1>6, <1>7

\* A command is left out, or its loop over callbacks_ begins.
LEMMA DrainTakesCommand ==
  ASSUME Types, SessionInv, CommandInv, NEW t \in Client \cup Drain,
         DrainSkips(t) \/ DrainFetches(t)
  PROVE  CommandInv'
<1> USE RolePlaces, Threads DEF Types, TypeOK, PcOK, PacketsOK, CommandInv
<1>1. PICK i \in todo[t] :
         /\ todo' = [todo EXCEPT ![t] = @ \ {i}]
         /\ \/ /\ UNCHANGED <<pc, pass, cmd>>
               /\ fate' \in {[fate EXCEPT ![pending[i]] = "done"],
                             [fate EXCEPT ![pending[i]] = "lost"]}
            \/ /\ cmd' = [cmd EXCEPT ![t] = pending[i]]
               /\ pass' = [pass EXCEPT ![t] = Registered]
               /\ pc' = [pc EXCEPT ![t] = "call"]
               /\ UNCHANGED fate
  BY DEF DrainSkips, DrainFetches, Goto, packetVars
<1>2. /\ pc[t] = "drain" /\ pend = t /\ i \in 1 .. Len(pending)
      /\ UNCHANGED <<pend, pending, inbox, given>>
  BY DEF DrainSkips, DrainFetches, DrainOwns, lockVars, packetVars
<1>3. \A d \in Cmd : fate'[d] = "unsent" => fate[d] = "unsent"
  BY <1>1
<1>4. pending[i] \in Cmd /\ given[pending[i]] = 0
  BY <1>1, <1>2 DEF PendingOK
<1>5. \A d \in Client \cup Drain : pc'[d] = "call" => d = t
  BY <1>1, <1>2 DEF DrainOwns
<1>6. \A l \in Listener : UNCHANGED <<pc[l], pass[l], cmd[l]>>
  BY <1>1 DEF WorkOK
<1>7. ListenerHas'
  <2>1. ASSUME NEW l \in Listener, Listening(l)'
        PROVE  /\ fate'[cmd'[l]] # "unsent"
               /\ \A k \in 1 .. Len(inbox') : inbox'[k] # cmd'[l]
               /\ \A k \in 1 .. Len(pending') : pending'[k] # cmd'[l]
               /\ pc'[l] = "dispatch" => OnePass(l)'
               /\ pc'[l] # "dispatch" => given'[cmd'[l]] = 0
    <3>1. Listening(l) /\ cmd[l] \in Cmd
      BY <1>6, <2>1 DEF Listening, HasCommand
    <3>2. UNCHANGED <<pc[l], pass[l], cmd[l], inbox, pending, given>>
      BY <1>2, <1>6
    <3>3. fate'[cmd[l]] # "unsent"
      BY <1>3, <3>1 DEF ListenerHas
    <3> QED
      BY <3>1, <3>2, <3>3 DEF ListenerHas, OnePass
  <2> QED
    BY <2>1 DEF ListenerHas
<1>8. PendOwned'
  BY <1>1, <1>2 DEF PendOwned
<1>9. DrainHas'
  <2>1. CASE UNCHANGED pc
    BY <1>2, <1>5, <2>1 DEF DrainHas
  <2>2. CASE ~ UNCHANGED pc
    <3>1. /\ cmd'[t] = pending[i] /\ pass'[t] = Registered
          /\ i \notin todo'[t]
      BY <1>1, <2>2 DEF WorkOK
    <3>2. OnePass(t)'
      BY <1>2, <1>4, <3>1, OneRegistered DEF OnePass
    <3> QED
      BY <1>2, <1>5, <3>1, <3>2 DEF DrainHas
  <2> QED
    BY <2>1, <2>2
<1>10. InboxOK'
  BY <1>2, <1>3 DEF InboxOK
<1>11. PendingOK'
  <2>1. todo'[t] \subseteq todo[t]
    BY <1>1 DEF WorkOK
  <2> QED
    BY <1>2, <1>3, <2>1 DEF PendingOK
<1>12. Unsent' /\ HandedOnce'
  BY <1>2, <1>3 DEF Unsent, HandedOnce
<1> QED
  BY <1>7, <1>8, <1>9, <1>10, <1>11, <1>12

\* The only composer of the loop gets a deferred command.
LEMMA DrainCallsCommand ==
  ASSUME Types, CommandInv, NEW t \in Client \cup Drain, DrainCalls(t)
  PROVE  CommandInv'
<1> USE RolePlaces, Threads DEF Types, TypeOK, PcOK, PacketsOK, CommandInv
<1> DEFINE c == cmd[t]
<1>1. PICK r \in pass[t] : HandOver(t, r, c)
  BY DEF DrainCalls
<1>2. /\ c \in Cmd /\ given[c] = 0 /\ pass[t] = {r} /\ pend = t
      /\ \E k \in (1 .. Len(pending)) \ todo[t] : pending[k] = c
  BY <1>1 DEF DrainCalls, HasCommand, DrainHas, OnePass, DrainOwns
<1>3. /\ given' = [given EXCEPT ![c] = @ + 1]
      /\ fate' = [fate EXCEPT ![c] = "reached"]
      /\ pass' = [pass EXCEPT ![t] = {}]
  BY <1>1, <1>2 DEF HandOver
<1>4. /\ pc[t] = "call" /\ pc' = [pc EXCEPT ![t] = "drain"]
      /\ UNCHANGED <<pend, todo, cmd, pending, inbox>>
  BY <1>3 DEF DrainCalls, Goto, WorkOK, lockVars
<1> HIDE DEF c
<1>5. /\ given'[c] = 1
      /\ \A d \in Cmd \ {c} : given'[d] = given[d]
      /\ \A d \in Cmd : fate'[d] = "unsent" => fate[d] = "unsent" /\ d # c
  BY <1>2, <1>3
<1>6. \A l \in Listener : pass'[l] = pass[l] /\ pc'[l] = pc[l]
  BY <1>3, <1>4 DEF WorkOK
<1>7. ListenerHas'
  <2>1. ASSUME NEW l \in Listener, Listening(l)'
        PROVE  /\ fate'[cmd'[l]] # "unsent"
               /\ \A k \in 1 .. Len(inbox') : inbox'[k] # cmd'[l]
               /\ \A k \in 1 .. Len(pending') : pending'[k] # cmd'[l]
               /\ pc'[l] = "dispatch" => OnePass(l)'
               /\ pc'[l] # "dispatch" => given'[cmd'[l]] = 0
    <3>1. Listening(l)
      BY <1>6, <2>1 DEF Listening
    <3>2. cmd[l] \in Cmd \ {c}
      BY <1>2, <3>1 DEF ListenerHas, HasCommand, Listening
    <3>3. fate'[cmd[l]] # "unsent" /\ given'[cmd[l]] = given[cmd[l]]
      BY <1>5, <3>1, <3>2 DEF ListenerHas
    <3>4. UNCHANGED <<pc[l], pass[l], cmd[l], inbox, pending>>
      BY <1>4, <1>6
    <3> QED
      BY <3>1, <3>3, <3>4 DEF ListenerHas, OnePass
  <2> QED
    BY <2>1 DEF ListenerHas
<1>8. InboxOK'
  <2>1. \A k \in 1 .. Len(inbox) : inbox[k] \in Cmd \ {c}
    BY <1>2 DEF InboxOK
  <2> QED
    BY <1>4, <1>5, <2>1 DEF InboxOK
<1>9. PendingOK'
  <2>1. \A k \in 1 .. Len(pending) : pending[k] \in Cmd
    OBVIOUS
  <2>2. \A k \in (1 .. Len(pending)) \cap todo[t] : pending[k] # c
    BY <1>2 DEF PendingOK
  <2>3. \A d \in Thread : pend' = d => d = t
    BY <1>2, <1>4
  <2> QED
    BY <1>2, <1>4, <1>5, <2>1, <2>2, <2>3 DEF PendingOK
<1>10. PendOwned'
  BY <1>2, <1>4 DEF PendOwned
<1>11. DrainHas'
  BY <1>2, <1>4 DEF DrainHas, DrainOwns
<1>12. Unsent'
  BY <1>5 DEF Unsent
<1>13. HandedOnce'
  <2>1. \A d \in Cmd : given[d] <= 1
    BY DEF HandedOnce
  <2> QED
    BY <1>5, <2>1 DEF HandedOnce
<1> QED
  BY <1>7, <1>8, <1>9, <1>10, <1>11, <1>12, <1>13

\* pending_commands_ is cleared before anybody else can look at it.
LEMMA DrainEndsCommand ==
  ASSUME Types, CommandInv, NEW t \in Client \cup Drain, DrainEnds(t)
  PROVE  CommandInv'
<1> USE RolePlaces, Threads DEF Types, TypeOK, PcOK, CommandInv
<1>1. /\ pc[t] = "drain" /\ pend = t /\ pend' = NoOne /\ pending' = <<>>
      /\ pc' \in {[pc EXCEPT ![t] = "core"], [pc EXCEPT ![t] = "off"]}
      /\ UNCHANGED <<workVars, inbox, fate, given>>
  BY DEF DrainEnds, PendingCleared, Goto, DrainOwns
<1>2. \A l \in Listener : pc'[l] = pc[l]
  BY <1>1
<1>3. \A d \in Client \cup Drain : pc'[d] # "call"
  BY <1>1 DEF DrainOwns
<1>4. ListenerHas'
  BY <1>1, <1>2 DEF ListenerHas, Listening, OnePass, workVars
<1>5. PendOwned' /\ DrainHas'
  BY <1>1, <1>3 DEF PendOwned, DrainHas
<1>6. InboxOK' /\ PendingOK' /\ Unsent' /\ HandedOnce'
  BY <1>1 DEF InboxOK, PendingOK, Unsent, HandedOnce
<1> QED
  BY <1>4, <1>5, <1>6

LEMMA NextCommand ==
  Types /\ OneListener /\ SessionInv /\ CommandInv /\ [Next]_vars => CommandInv'
<1> SUFFICES ASSUME Types, OneListener, SessionInv, CommandInv, [Next]_vars
             PROVE  CommandInv'
  OBVIOUS
<1> USE RolePlaces, Threads DEF Types, TypeOK, PcOK
<1>1. ASSUME NEW t \in Client \cup Daemon, Register(t)
      PROVE  CommandInv'
  <2>1. CASE UnRegisterCallback(t)
    BY <2>1, UnregisterCommand
  <2>2. CASE RegisterMore(t)
    BY <2>2, CommandFrame DEF RegisterMore, Goto, lockVars
  <2>3. CASE RegisterNoLib(t) \/ RegisterBreaks(t)
    BY <2>3, CommandFrame DEF RegisterNoLib, RegisterBreaks, Goto
  <2>4. CASE RegisterFirst(t)
    BY <2>4, CommandFrame DEF RegisterFirst, Listening
  <2> QED
    BY <1>1, <2>1, <2>2, <2>3, <2>4 DEF Register
<1>2. CASE Decision
  <2>1. ASSUME NEW c \in Client, CallCreate(c) \/ CallDestroy(c)
        PROVE  CommandInv'
    BY <2>1, CommandFrame DEF CallCreate, CallDestroy, Goto, lockVars
  <2>2. ASSUME NEW d \in Daemon, CallRegister(d) \/ CallUnregister(d)
        PROVE  CommandInv'
    BY <2>2, CommandFrame DEF CallRegister, CallUnregister, Goto, lockVars
  <2> QED
    BY <1>2, <2>1, <2>2, SendCommand DEF Decision
<1>3. ASSUME NEW c \in Client, ClientStep(c)
      PROVE  CommandInv'
  BY <1>3, CommandFrame
  DEF ClientStep, NewInstance, ReturnInstance, InitAgain, InitFirst,
      CreateCoreSucceeds, CreateCoreFails, DeinitShared, DeinitLast,
      DestroyCoreSucceeds, DestroyCoreFails, Goto, lockVars
<1>4. ASSUME NEW l \in Listener, ListenerStep(l)
      PROVE  CommandInv'
  <2>1. CASE \/ ListenerStarts(l) \/ TestLoop(l) \/ PollFindsPacket(l)
             \/ PollFindsExit(l) \/ PollFindsError(l) \/ ReceiveFails(l)
             \/ ReceiveNothing(l)
    BY <2>1, CommandFrame
    DEF ListenerStarts, TestLoop, PollFindsPacket, PollFindsExit,
        PollFindsError, ReceiveFails, ReceiveNothing, Goto, Listening, lockVars
  <2>2. CASE HandlePostpones(l)
    BY <2>2, CommandFrame DEF HandlePostpones, Goto, Listening
  <2>3. CASE \/ HandleOther(l) \/ HandleBadPacket(l) \/ HandleByService(l)
             \/ HandleRejects(l)
    BY <2>3, FinishCommand
    DEF HandleOther, HandleBadPacket, HandleByService, HandleRejects
  <2> QED
    BY <1>4, <2>1, <2>2, <2>3, ReceiveCommand, AcceptCommand, DeferCommand,
       DispatchCommand
    DEF ListenerStep, Handle
<1>5. ASSUME NEW t \in Client \cup Drain, HandlePendingCommands(t)
      PROVE  CommandInv'
  BY <1>5, DrainStartsCommand, DrainTakesCommand, DrainCallsCommand,
     DrainEndsCommand
  DEF HandlePendingCommands
<1>6. CASE UNCHANGED vars
  BY <1>6, CommandFrame DEF vars, lockVars
<1> QED
  BY <1>1, <1>2, <1>3, <1>4, <1>5, <1>6 DEF Next

\* A command reaches a composer at most once, by the listener or by a drain,
\* in whatever order clients come and go: it is in one place at a time, is
\* taken out of it before it is handed over or with pending_cmd_lock_ held
\* until it is, and callbacks_ has one composer to hand it to.
THEOREM CommandsHandedOnce ==
  ASSUME Disciplined
  PROVE  Spec => []HandedOnce
<1>1. Init => Types /\ SessionInv /\ CommandInv
  BY InitTypes, InitSessionInv, InitCommand
<1>2. Types /\ SessionInv /\ CommandInv /\ OneListener /\ [Next]_vars
        => Types' /\ SessionInv' /\ CommandInv'
  BY NextTypes, NextSession, NextCommand, Disciplined
<1>3. CommandInv => HandedOnce
  BY DEF CommandInv
<1> QED
  BY <1>1, <1>2, <1>3, SingleListener, PTL DEF Spec

=============================================================================
