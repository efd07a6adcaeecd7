--------------------------- MODULE SDMCompService ---------------------------
(***************************************************************************)
(* The command service of the display composer and the sessions that use   *)
(* it: libsdmcomposer/src/sdm_comp_service.cpp with the life cycle of      *)
(* SDMCompImpl (GetInstance, Init, Deinit of sdm_comp_impl.cpp) that       *)
(* registers with it.                                                      *)
(*                                                                         *)
(* Four kinds of threads run:                                              *)
(*   - a Client calls SDMCompInterface::Create and Destroy;                *)
(*   - a Daemon calls SDMCompServiceIntf::Create(nullptr, ..) and Destroy, *)
(*     the registration that stands for no composer;                       *)
(*   - a Listener is a run of QRTREventHandler, the detached event_thread_;*)
(*   - a Drain is a detached run of HandlePendingCommands.                 *)
(* They share three locks, callbacks_, the socket and pending_commands_.   *)
(*                                                                         *)
(* An action runs from one blocking call, lock acquisition or unlocked     *)
(* access of shared state to the next.  Three choices are made once, here. *)
(* Locking a std::mutex its thread already holds blocks for ever (glibc).  *)
(* The unlocked passes over callbacks_ read one of its values.  A call on  *)
(* a deleted composer goes on as if its memory were still there.           *)
(*                                                                         *)
(* Beside some definitions stands the mistake a change of the code could   *)
(* easily make (..NoUndo, ..Unlocked, ..StillLocked).  No specification    *)
(* uses these: they are there to be put in the definition's place, to see  *)
(* which property notices.                                                 *)
(***************************************************************************)
EXTENDS Naturals, Sequences, FiniteSets

CONSTANTS
    Client, Daemon, Listener, Drain,    \* the threads, by role
    NoOne,       \* no thread: the owner of a free lock
    Cmd,         \* the packets that may arrive, each sent at most once
    NoCmd,       \* no packet
    KindOf,      \* [Cmd -> Kinds]
    BadPacket,   \* packets too short for a Command or of a newer version
    BadArg,      \* commands whose display type the service does not know
    MaxImpl,     \* bound: SDMCompImpl objects ever made
    MaxCalls,    \* bound: Create calls of one client or daemon
    Resident,    \* clients and daemons that never destroy what they created;
                 \* the daemons among them register before any client creates
    Serial,      \* TRUE: the callers serialise Create and Destroy
    Faults       \* the calls that may fail

\* The commands for a composer in the order of their identifiers (which is
\* the order of pending_commands_), those the service handles itself, those
\* of the extension, and packets that are no command at all.
ComposerKinds == {"demura", "backlight", "config"}
Rank == [k \in ComposerKinds |->
            CASE k = "demura" -> 0 [] k = "backlight" -> 1 [] OTHER -> 2]
Kinds == ComposerKinds \cup {"properties", "boot", "extension", "control"}

Thread == Client \cup Daemon \cup Listener \cup Drain
Impl == 1 .. MaxImpl
AnyFault == {"load", "setup", "core", "destroycore", "recv"}

ASSUME Threads ==
    /\ IsFiniteSet(Thread)
    /\ Client \cap (Daemon \cup Listener \cup Drain) = {}
    /\ Daemon \cap (Listener \cup Drain) = {}
    /\ Listener \cap Drain = {}
    /\ NoOne \notin Thread
    /\ Resident \subseteq Client \cup Daemon

ASSUME Commands ==
    /\ NoCmd \notin Cmd
    /\ KindOf \in [Cmd -> Kinds]
    /\ BadPacket \subseteq Cmd /\ BadArg \subseteq Cmd

ASSUME Bounds ==
    /\ MaxImpl \in Nat /\ MaxCalls \in Nat
    /\ Serial \in BOOLEAN /\ Faults \subseteq AnyFault

VARIABLES
    pc,          \* where each thread is
    rec,         \* owner of recursive_mutex_
    qrtr,        \* owner of qrtr_lock_
    pend,        \* owner of pending_cmd_lock_
    callbacks,   \* callbacks_, a bag: 0 counts the nullptr registrations
    fd,          \* qrtr_fd_: "unset" is -1, "closed" a closed descriptor
    impl,        \* sdm_comp_impl_, 0 is nullptr
    born,        \* SDMCompImpl objects made so far
    alive,       \* those not deleted
    intf,        \* those whose sdm_comp_service_intf_ is set
    refCount,    \* ref_count_
    inst,        \* the composer each client got from GetInstance
    calls,       \* Create calls made by each client and daemon
    pass,        \* composers a loop over callbacks_ has still to call
    todo,        \* positions of pending_commands_ a drain has still to visit
    cmd,         \* the command a listener or a drain is working on
    pending,     \* pending_commands_, in the order of arrival
    inbox,       \* packets in the socket
    reply,       \* the status sent back for each packet
    fate,        \* what became of each packet
    given        \* how often each command was handed to a composer

lockVars    == <<rec, qrtr, pend>>
sessionVars == <<impl, born, alive, intf, refCount, inst, calls>>
serviceVars == <<callbacks, fd>>
workVars    == <<pass, todo, cmd>>
packetVars  == <<pending, inbox, reply, fate, given>>
vars == <<pc, lockVars, sessionVars, serviceVars, workVars, packetVars>>

---------------------------------------------------------------------------
(* Types                                                                   *)

ClientPC == {"idle", "new", "fetch", "init", "reg", "cleanup", "dwant",
             "drain", "call", "core", "undo", "open", "closing", "unreg",
             "destroy"}
DaemonPC == {"idle", "reg", "cleanup", "open", "unreg"}
ListenerPC == {"off", "start", "loop", "poll", "recv", "got", "defer",
               "dispatch"}
DrainPC == {"off", "dwant", "drain", "call"}

Places(t) ==
    IF t \in Client THEN ClientPC ELSE
    IF t \in Daemon THEN DaemonPC ELSE
    IF t \in Listener THEN ListenerPC ELSE DrainPC

PcOK ==
    /\ pc \in [Thread -> ClientPC \cup DaemonPC \cup ListenerPC \cup DrainPC]
    /\ \A t \in Thread : pc[t] \in Places(t)
LocksOK ==
    /\ rec \in Thread \cup {NoOne}
    /\ qrtr \in Thread \cup {NoOne}
    /\ pend \in Thread \cup {NoOne}
SessionOK ==
    /\ impl \in 0 .. MaxImpl /\ born \in 0 .. MaxImpl
    /\ alive \subseteq Impl /\ intf \subseteq Impl
    /\ refCount \in Nat
    /\ inst \in [Client -> 0 .. MaxImpl]
    /\ calls \in [Client \cup Daemon -> 0 .. MaxCalls]
ServiceOK ==
    /\ callbacks \in [0 .. MaxImpl -> Nat]
    /\ fd \in {"unset", "open", "closed"}
WorkOK ==
    /\ pass \in [Thread -> SUBSET Impl]
    /\ todo \in [Thread -> SUBSET Nat]
    /\ cmd \in [Thread -> Cmd \cup {NoCmd}]
PacketsOK ==
    /\ pending \in Seq(Cmd) /\ inbox \in Seq(Cmd)
    /\ reply \in [Cmd -> {"none", "ok", "error"}]
    /\ fate \in [Cmd -> {"unsent", "sent", "deferred", "reached", "done",
                         "lost"}]
    /\ given \in [Cmd -> Nat]

TypeOK ==
    PcOK /\ LocksOK /\ SessionOK /\ ServiceOK /\ WorkOK /\ PacketsOK

---------------------------------------------------------------------------
(* Helpers                                                                 *)

\* The composers in callbacks_; IsRegisteredClientValid says there is one.
Registered == {i \in Impl : callbacks[i] > 0}

\* callbacks_.empty()
NoCallbacks(bag) == \A i \in 0 .. MaxImpl : bag[i] = 0

\* callbacks_.push_back
Push(i) == [callbacks EXCEPT ![i] = @ + 1]

\* One less, if there is one: erase after find, and Deinit's test of the count.
OneLessUnchecked(n) == n - 1
OneLess(n) == IF n = 0 THEN 0 ELSE n - 1

\* erase of the first match, if there is one
Erase(i) == [callbacks EXCEPT ![i] = OneLess(@)]

\* Whether nobody is left to serve once a registration is erased.
NoComposerLeft(bag) == \A i \in Impl : bag[i] = 0
NobodyLeft(bag) == NoCallbacks(bag)

\* What qrtr_fd_ is left with by the teardown: the number of a closed file.
FdReset == "unset"
FdAfterClose == "closed"

\* The packets still in the socket.
Unread == {inbox[k] : k \in 1 .. Len(inbox)}

\* qrtr_lock_ when thread t leaves the scope of its lock_guard, if it has one.
QrtrStillLocked(t) == qrtr
QrtrUnlocked(t) == IF qrtr = t THEN NoOne ELSE qrtr

\* What a client (its composer) or a daemon (nullptr) registers.
CallbackOf(t) == IF t \in Client THEN inst[t] ELSE 0

\* The caller's own discipline: who may start a Create or a Destroy.
MayCall(t) == Serial => \A c \in Client \ {t} : pc[c] \in {"idle", "open"}

\* Position i is the next of todo[t] in the order of pending_commands_:
\* by identifier, and by arrival among equals.
PrecedesNewestFirst(i, j) ==
    LET ri == Rank[KindOf[pending[i]]]
        rj == Rank[KindOf[pending[j]]]
    IN  ri < rj \/ (ri = rj /\ i > j)
Precedes(i, j) ==
    LET ri == Rank[KindOf[pending[i]]]
        rj == Rank[KindOf[pending[j]]]
    IN  ri < rj \/ (ri = rj /\ i < j)
NextPending(t, i) ==
    /\ i \in todo[t]
    /\ \A j \in todo[t] \ {i} : Precedes(i, j)

Goto(t, place) == pc' = [pc EXCEPT ![t] = place]

Init ==
    /\ pc = [t \in Thread |->
                IF t \in Client \cup Daemon THEN "idle" ELSE "off"]
    /\ rec = NoOne /\ qrtr = NoOne /\ pend = NoOne
    /\ callbacks = [i \in 0 .. MaxImpl |-> 0]
    /\ fd = "unset"
    /\ impl = 0 /\ born = 0 /\ alive = {} /\ intf = {} /\ refCount = 0
    /\ inst = [c \in Client |-> 0]
    /\ calls = [t \in Client \cup Daemon |-> 0]
    /\ pass = [t \in Thread |-> {}]
    /\ todo = [t \in Thread |-> {}]
    /\ cmd = [t \in Thread |-> NoCmd]
    /\ pending = <<>> /\ inbox = <<>>
    /\ reply = [c \in Cmd |-> "none"]
    /\ fate = [c \in Cmd |-> "unsent"]
    /\ given = [c \in Cmd |-> 0]

---------------------------------------------------------------------------
(* SDMCompInterface::Create, up to the registration                        *)

\* A client calls Create: the unlocked test of sdm_comp_impl_ in GetInstance.
CallCreate(c) ==
    /\ pc[c] = "idle" /\ calls[c] < MaxCalls
    /\ MayCall(c)
    /\ \A d \in Daemon \cap Resident : pc[d] = "open"
    /\ calls' = [calls EXCEPT ![c] = @ + 1]
    /\ Goto(c, IF impl = 0 THEN "new" ELSE "fetch")
    /\ UNCHANGED <<lockVars, impl, born, alive, intf, refCount, inst,
                   serviceVars, workVars, packetVars>>

\* sdm_comp_impl_ = new SDMCompImpl()
NewInstance(c) ==
    /\ pc[c] = "new" /\ born < MaxImpl
    /\ born' = born + 1
    /\ impl' = born + 1
    /\ alive' = alive \cup {born + 1}
    /\ Goto(c, "fetch")
    /\ UNCHANGED <<lockVars, intf, refCount, inst, calls, serviceVars,
                   workVars, packetVars>>

\* return sdm_comp_impl_: a second read; Create fails when it gives nullptr.
ReturnInstance(c) ==
    /\ pc[c] = "fetch"
    /\ inst' = [inst EXCEPT ![c] = impl]
    /\ Goto(c, IF impl = 0 THEN "idle" ELSE "init")
    /\ UNCHANGED <<lockVars, impl, born, alive, intf, refCount, calls,
                   serviceVars, workVars, packetVars>>

\* Init when ref_count_ is not 0: only the count goes up.
InitAgain(c) ==
    /\ pc[c] = "init" /\ rec = NoOne /\ refCount > 0
    /\ refCount' = refCount + 1
    /\ Goto(c, "open")
    /\ UNCHANGED <<lockVars, impl, born, alive, intf, inst, calls,
                   serviceVars, workVars, packetVars>>

\* The first Init goes on to register, under recursive_mutex_.
InitFirst(c) ==
    /\ pc[c] = "init" /\ rec = NoOne /\ refCount = 0
    /\ rec' = c
    /\ Goto(c, "reg")
    /\ UNCHANGED <<qrtr, pend, sessionVars, serviceVars, workVars, packetVars>>

\* A daemon calls SDMCompServiceIntf::Create(nullptr, ..).
CallRegister(d) ==
    /\ pc[d] = "idle" /\ calls[d] < MaxCalls
    /\ calls' = [calls EXCEPT ![d] = @ + 1]
    /\ Goto(d, "reg")
    /\ UNCHANGED <<lockVars, impl, born, alive, intf, refCount, inst,
                   serviceVars, workVars, packetVars>>

---------------------------------------------------------------------------
(* RegisterCallback, for a client (inside Init) or a daemon                *)

\* Create stores the new interface in sdm_comp_service_intf_.
Stored(t) == intf' = IF t \in Client THEN intf \cup {inst[t]} ELSE intf

\* qrtr_fd_ > 0: another registration; a composer starts a detached drain.
RegisterMore(t) ==
    /\ pc[t] = "reg" /\ qrtr = NoOne /\ fd # "unset"
    /\ callbacks' = Push(CallbackOf(t))
    /\ Stored(t)
    /\ IF t \in Client
       THEN \E d \in Drain : /\ pc[d] = "off"
                             /\ pc' = [pc EXCEPT ![t] = "core",
                                                 ![d] = "dwant"]
       ELSE Goto(t, "open")
    /\ UNCHANGED <<lockVars, impl, born, alive, refCount, inst, calls, fd,
                   workVars, packetVars>>

\* libqrtr cannot be loaded: -ENOENT, and Init leaves with it.
RegisterNoLib(t) ==
    /\ pc[t] = "reg" /\ qrtr = NoOne /\ fd = "unset"
    /\ "load" \in Faults
    /\ Goto(t, "idle")
    /\ rec' = IF t \in Client THEN NoOne ELSE rec
    /\ UNCHANGED <<qrtr, pend, sessionVars, serviceVars, workVars, packetVars>>

\* A later step of the set-up fails (qrtr_open_, or one after it): goto
\* cleanup, which calls UnRegisterCallback with qrtr_lock_ still held.
RegisterBreaks(t) ==
    /\ pc[t] = "reg" /\ qrtr = NoOne /\ fd = "unset"
    /\ "setup" \in Faults
    /\ fd' \in {"unset", "open"}
    /\ qrtr' = t
    /\ Goto(t, "cleanup")
    /\ UNCHANGED <<rec, pend, sessionVars, callbacks, workVars, packetVars>>

\* The first registration opens the socket and starts the listener; for a
\* composer it then drains pending_commands_ itself, qrtr_lock_ still held.
RegisterFirst(t) ==
    /\ pc[t] = "reg" /\ qrtr = NoOne /\ fd = "unset"
    /\ fd' = "open"
    /\ callbacks' = Push(CallbackOf(t))
    /\ Stored(t)
    /\ \E l \in Listener :
          /\ pc[l] = "off"
          /\ pc' = [pc EXCEPT ![l] = "start",
                              ![t] = IF t \in Client THEN "dwant" ELSE "open"]
    /\ qrtr' = IF t \in Client THEN t ELSE NoOne
    /\ UNCHANGED <<rec, pend, impl, born, alive, refCount, inst, calls,
                   workVars, packetVars>>

---------------------------------------------------------------------------
(* The rest of Init, and Deinit                                            *)

CreateCoreSucceeds(c) ==
    /\ pc[c] = "core"
    /\ refCount' = refCount + 1
    /\ rec' = NoOne
    /\ Goto(c, "open")
    /\ UNCHANGED <<qrtr, pend, impl, born, alive, intf, inst, calls,
                   serviceVars, workVars, packetVars>>

\* CreateCore fails: Init destroys the service interface it has just made.
CreateCoreFailsNoUndo(c) ==
    /\ pc[c] = "core" /\ "core" \in Faults
    /\ rec' = NoOne
    /\ Goto(c, "idle")
    /\ UNCHANGED <<qrtr, pend, sessionVars, serviceVars, workVars, packetVars>>
CreateCoreFails(c) ==
    /\ pc[c] = "core" /\ "core" \in Faults
    /\ Goto(c, "undo")
    /\ UNCHANGED <<lockVars, sessionVars, serviceVars, workVars, packetVars>>

\* A client calls Destroy.
CallDestroy(c) ==
    /\ pc[c] = "open" /\ c \notin Resident
    /\ MayCall(c)
    /\ Goto(c, "closing")
    /\ UNCHANGED <<lockVars, sessionVars, serviceVars, workVars, packetVars>>

\* Deinit with other users left, or with nobody to count: nothing is freed.
DeinitShared(c) ==
    /\ pc[c] = "closing" /\ rec = NoOne /\ refCount # 1
    /\ refCount' = OneLess(refCount)
    /\ Goto(c, "idle")
    /\ UNCHANGED <<lockVars, impl, born, alive, intf, inst, calls,
                   serviceVars, workVars, packetVars>>

\* Deinit by the last user goes on to leave the service, if it joined it.
DeinitLast(c) ==
    /\ pc[c] = "closing" /\ rec = NoOne /\ refCount = 1
    /\ refCount' = 0
    /\ rec' = c
    /\ Goto(c, IF inst[c] \in intf THEN "unreg" ELSE "destroy")
    /\ UNCHANGED <<qrtr, pend, impl, born, alive, intf, inst, calls,
                   serviceVars, workVars, packetVars>>

\* DestroyCore succeeds: the composer sdm_comp_impl_ points to is deleted.
DestroyCoreSucceeds(c) ==
    /\ pc[c] = "destroy"
    /\ alive' = alive \ {impl}
    /\ impl' = 0
    /\ rec' = NoOne
    /\ Goto(c, "idle")
    /\ UNCHANGED <<qrtr, pend, born, intf, refCount, inst, calls,
                   serviceVars, workVars, packetVars>>

\* DestroyCore fails: Destroy returns -EINVAL, the service already left.
DestroyCoreFails(c) ==
    /\ pc[c] = "destroy" /\ "destroycore" \in Faults
    /\ rec' = NoOne
    /\ Goto(c, "open")
    /\ UNCHANGED <<qrtr, pend, sessionVars, serviceVars, workVars, packetVars>>

\* A daemon calls SDMCompServiceIntf::Destroy.
CallUnregister(d) ==
    /\ pc[d] = "open" /\ d \notin Resident
    /\ Goto(d, "unreg")
    /\ UNCHANGED <<lockVars, sessionVars, serviceVars, workVars, packetVars>>

\* UnRegisterCallback.  The last to leave closes the exit event and the
\* socket, whose packets are lost; qrtr_fd_ keeps its value.  A thread in
\* "cleanup" waits here for the lock it holds itself.
MayLeaveUnlocked(t) == pc[t] \in {"unreg", "undo"}
MayLeave(t) == pc[t] \in {"unreg", "undo", "cleanup"} /\ qrtr = NoOne
UnRegisterCallback(t) ==
    /\ MayLeave(t)
    /\ callbacks' = Erase(CallbackOf(t))
    /\ IF NobodyLeft(callbacks') /\ fd = "open"
       THEN /\ fd' = FdAfterClose
            /\ inbox' = <<>>
            /\ fate' = [c \in Cmd |-> IF c \in Unread THEN "lost" ELSE fate[c]]
       ELSE UNCHANGED <<fd, inbox, fate>>
    /\ IF t \in Client /\ pc[t] = "unreg"
       THEN Goto(t, "destroy") /\ UNCHANGED rec
       ELSE /\ Goto(t, "idle")
            /\ rec' = IF t \in Client THEN NoOne ELSE rec
    /\ UNCHANGED <<qrtr, pend, sessionVars, workVars, pending, reply, given>>

---------------------------------------------------------------------------
(* QRTREventHandler                                                        *)

\* Another virtual machine sends a packet to the published service.
Send(c) ==
    /\ fd = "open" /\ fate[c] = "unsent"
    /\ fate' = [fate EXCEPT ![c] = "sent"]
    /\ inbox' = Append(inbox, c)
    /\ UNCHANGED <<pc, lockVars, sessionVars, serviceVars, workVars, pending,
                   reply, given>>

\* The descriptors are read under qrtr_lock_: not before RegisterFirst ends.
ListenerStarts(l) ==
    /\ pc[l] = "start" /\ qrtr = NoOne
    /\ Goto(l, "loop")
    /\ UNCHANGED <<lockVars, sessionVars, serviceVars, workVars, packetVars>>

\* while (!callbacks_.empty()), read without a lock
StopsListeningUnlessComposer == Registered = {}
StopsListening == NoCallbacks(callbacks)
TestLoop(l) ==
    /\ pc[l] = "loop"
    /\ Goto(l, IF StopsListening THEN "off" ELSE "poll")
    /\ UNCHANGED <<lockVars, sessionVars, serviceVars, workVars, packetVars>>

PollFindsPacket(l) ==
    /\ pc[l] = "poll" /\ inbox # <<>>
    /\ Goto(l, "recv")
    /\ UNCHANGED <<lockVars, sessionVars, serviceVars, workVars, packetVars>>

\* The exit event, or descriptors that are closed: back to the test.
PollMissesExit(l) == FALSE
PollFindsExit(l) ==
    /\ pc[l] = "poll" /\ fd = "closed"
    /\ Goto(l, "loop")
    /\ UNCHANGED <<lockVars, sessionVars, serviceVars, workVars, packetVars>>

\* POLLERR also leads to recvfrom.
PollFindsError(l) ==
    /\ pc[l] = "poll" /\ fd = "open" /\ "recv" \in Faults
    /\ Goto(l, "recv")
    /\ UNCHANGED <<lockVars, sessionVars, serviceVars, workVars, packetVars>>

Receive(l) ==
    /\ pc[l] = "recv" /\ inbox # <<>>
    /\ cmd' = [cmd EXCEPT ![l] = Head(inbox)]
    /\ inbox' = Tail(inbox)
    /\ Goto(l, "got")
    /\ UNCHANGED <<lockVars, sessionVars, serviceVars, pass, todo, pending,
                   reply, fate, given>>

\* recvfrom fails and the thread returns, whoever is still registered.
ReceiveFails(l) ==
    /\ pc[l] = "recv" /\ (fd = "closed" \/ "recv" \in Faults)
    /\ Goto(l, "off")
    /\ UNCHANGED <<lockVars, sessionVars, serviceVars, workVars, packetVars>>

\* EAGAIN: nothing to read after all, and the loop goes on.
ReceiveNothing(l) ==
    /\ pc[l] = "recv" /\ fd = "open" /\ inbox = <<>>
    /\ Goto(l, "loop")
    /\ UNCHANGED <<lockVars, sessionVars, serviceVars, workVars, packetVars>>

\* SendResponse: an answer on a socket that is closed reaches nobody.
Answered(c, status) ==
    IF fd = "open" THEN [reply EXCEPT ![c] = status] ELSE reply

\* Answers a packet on the spot: status "none" stands for no answer.
Finish(l, status) ==
    /\ fate' = [fate EXCEPT ![cmd[l]] = "done"]
    /\ reply' = Answered(cmd[l], status)
    /\ Goto(l, "loop")
    /\ UNCHANGED <<lockVars, sessionVars, serviceVars, workVars, pending,
                   inbox, given>>

\* Packets that are no command, and commands only the extension knows.
HandleOther(l) ==
    /\ pc[l] = "got" /\ qrtr = NoOne
    /\ cmd[l] \notin BadPacket
    /\ KindOf[cmd[l]] \in {"control", "extension"}
    /\ Finish(l, "none")

\* A packet that is too short or too new.
HandleBadPacket(l) ==
    /\ pc[l] = "got" /\ qrtr = NoOne
    /\ cmd[l] \in BadPacket /\ KindOf[cmd[l]] # "control"
    /\ Finish(l, "error")

\* HandleSetProperties and HandleSetPanelBootParams need no composer; no
\* branch of either sets the status to 0, so the answer is -EINVAL.
HandleByService(l) ==
    /\ pc[l] = "got" /\ qrtr = NoOne
    /\ cmd[l] \notin BadPacket /\ KindOf[cmd[l]] \in {"properties", "boot"}
    /\ Finish(l, "error")

\* A composer's command with a composer there, rejected before the loop
\* over callbacks_: no such display, demura off, or the import failed.
HandleRejects(l) ==
    /\ pc[l] = "got" /\ qrtr = NoOne
    /\ cmd[l] \notin BadPacket /\ KindOf[cmd[l]] \in ComposerKinds
    /\ Registered # {}
    /\ cmd[l] \in BadArg \/ KindOf[cmd[l]] = "demura"
    /\ Finish(l, "error")

\* A composer's command accepted: the loop over callbacks_ begins.
HandleAccepts(l) ==
    /\ pc[l] = "got" /\ qrtr = NoOne
    /\ cmd[l] \notin BadPacket \cup BadArg
    /\ KindOf[cmd[l]] \in ComposerKinds
    /\ Registered # {}
    /\ qrtr' = l
    /\ pass' = [pass EXCEPT ![l] = Registered]
    /\ Goto(l, "dispatch")
    /\ UNCHANGED <<rec, pend, sessionVars, serviceVars, todo, cmd, packetVars>>

\* A composer's command and no composer: it goes to pending_commands_.
HandlePostpones(l) ==
    /\ pc[l] = "got" /\ qrtr = NoOne
    /\ cmd[l] \notin BadPacket /\ KindOf[cmd[l]] \in ComposerKinds
    /\ Registered = {}
    /\ qrtr' = l
    /\ Goto(l, "defer")
    /\ UNCHANGED <<rec, pend, sessionVars, serviceVars, workVars, packetVars>>

\* pending_commands_ with one more command: a multimap keeps them all.
PostponedByKind(c) ==
    IF \E i \in 1 .. Len(pending) : KindOf[pending[i]] = KindOf[c]
    THEN pending ELSE Append(pending, c)
Postponed(c) == Append(pending, c)

\* pending_cmd_lock_ is free: stored, and answered with status 0.
Defer(l) ==
    /\ pc[l] = "defer" /\ pend = NoOne
    /\ pending' = Postponed(cmd[l])
    /\ fate' = [fate EXCEPT ![cmd[l]] = "deferred"]
    /\ reply' = Answered(cmd[l], "ok")
    /\ qrtr' = QrtrUnlocked(l)
    /\ Goto(l, "loop")
    /\ UNCHANGED <<rec, pend, sessionVars, serviceVars, workVars, inbox, given>>

\* OnEvent of composer r for command c: every event takes recursive_mutex_.
HandOver(t, r, c) ==
    /\ r \in pass[t] /\ rec \in {NoOne, t}
    /\ pass' = [pass EXCEPT ![t] = @ \ {r}]
    /\ given' = [given EXCEPT ![c] = @ + 1]
    /\ fate' = [fate EXCEPT ![c] = "reached"]

\* The listener calls a composer; the last call's result is the answer.
\* OnEvent returns 0 for a brightness whatever the display says.
Dispatch(l) ==
    /\ pc[l] = "dispatch"
    /\ \E r \in pass[l] : HandOver(l, r, cmd[l])
    /\ IF pass'[l] = {}
       THEN /\ \E status \in IF KindOf[cmd[l]] = "backlight" THEN {"ok"}
                             ELSE {"ok", "error"} :
                  reply' = Answered(cmd[l], status)
            /\ qrtr' = QrtrUnlocked(l)
            /\ Goto(l, "loop")
       ELSE UNCHANGED <<reply, qrtr, pc>>
    /\ UNCHANGED <<rec, pend, sessionVars, serviceVars, todo, cmd, pending,
                   inbox>>

---------------------------------------------------------------------------
(* HandlePendingCommands, detached (t a drain) or inside RegisterFirst     *)
(* (t a client); callbacks_ is read without qrtr_lock_ by a drain.         *)

DrainStarts(t) ==
    /\ pc[t] = "dwant" /\ pend = NoOne
    /\ pend' = t
    /\ todo' = [todo EXCEPT ![t] = 1 .. Len(pending)]
    /\ Goto(t, "drain")
    /\ UNCHANGED <<rec, qrtr, sessionVars, serviceVars, pass, cmd, packetVars>>

\* The next command is rejected, or finds no composer to go to.
DrainSkips(t) ==
    /\ pc[t] = "drain"
    /\ \E i \in todo[t] :
          /\ NextPending(t, i)
          /\ todo' = [todo EXCEPT ![t] = @ \ {i}]
          /\ \/ /\ pending[i] \in BadArg \/ KindOf[pending[i]] = "demura"
                /\ fate' = [fate EXCEPT ![pending[i]] = "done"]
             \/ /\ pending[i] \notin BadArg /\ Registered = {}
                /\ fate' = [fate EXCEPT ![pending[i]] = "lost"]
    /\ UNCHANGED <<pc, lockVars, sessionVars, serviceVars, pass, cmd, pending,
                   inbox, reply, given>>

\* The next command begins its loop over callbacks_.
DrainFetches(t) ==
    /\ pc[t] = "drain"
    /\ \E i \in todo[t] :
          /\ NextPending(t, i)
          /\ pending[i] \notin BadArg /\ Registered # {}
          /\ todo' = [todo EXCEPT ![t] = @ \ {i}]
          /\ cmd' = [cmd EXCEPT ![t] = pending[i]]
    /\ pass' = [pass EXCEPT ![t] = Registered]
    /\ Goto(t, "call")
    /\ UNCHANGED <<lockVars, sessionVars, serviceVars, packetVars>>

DrainCalls(t) ==
    /\ pc[t] = "call"
    /\ \E r \in pass[t] : HandOver(t, r, cmd[t])
    /\ Goto(t, IF pass'[t] = {} THEN "drain" ELSE "call")
    /\ UNCHANGED <<lockVars, sessionVars, serviceVars, todo, cmd, pending,
                   inbox, reply>>

\* pending_commands_.clear(); the inline drain also ends RegisterCallback.
PendingKept == pending
PendingCleared == <<>>
DrainEnds(t) ==
    /\ pc[t] = "drain" /\ todo[t] = {}
    /\ pending' = PendingCleared
    /\ pend' = NoOne
    /\ qrtr' = QrtrUnlocked(t)
    /\ Goto(t, IF t \in Client THEN "core" ELSE "off")
    /\ UNCHANGED <<rec, sessionVars, serviceVars, workVars, inbox, reply, fate,
                   given>>

---------------------------------------------------------------------------
(* Specification                                                           *)

\* What the code of a thread does once it is called or started.
Register(t) ==
    \/ RegisterMore(t) \/ RegisterNoLib(t) \/ RegisterBreaks(t)
    \/ RegisterFirst(t) \/ UnRegisterCallback(t)

HandlePendingCommands(t) ==
    \/ DrainStarts(t) \/ DrainSkips(t) \/ DrainFetches(t) \/ DrainCalls(t)
    \/ DrainEnds(t)

ClientStep(c) ==
    \/ NewInstance(c) \/ ReturnInstance(c) \/ InitAgain(c) \/ InitFirst(c)
    \/ CreateCoreSucceeds(c) \/ CreateCoreFails(c)
    \/ DeinitShared(c) \/ DeinitLast(c)
    \/ DestroyCoreSucceeds(c) \/ DestroyCoreFails(c)

Handle(l) ==
    \/ HandleOther(l) \/ HandleBadPacket(l) \/ HandleByService(l)
    \/ HandleRejects(l) \/ HandleAccepts(l) \/ HandlePostpones(l)

ListenerStep(l) ==
    \/ ListenerStarts(l) \/ TestLoop(l)
    \/ PollFindsPacket(l) \/ PollFindsExit(l) \/ PollFindsError(l)
    \/ Receive(l) \/ ReceiveFails(l) \/ ReceiveNothing(l)
    \/ Handle(l) \/ Defer(l) \/ Dispatch(l)

\* What the callers and the other virtual machine decide to do.
Decision ==
    \/ \E c \in Client : CallCreate(c) \/ CallDestroy(c)
    \/ \E d \in Daemon : CallRegister(d) \/ CallUnregister(d)
    \/ \E c \in Cmd : Send(c)

Next ==
    \/ Decision
    \/ \E t \in Client \cup Daemon : Register(t)
    \/ \E c \in Client : ClientStep(c)
    \/ \E l \in Listener : ListenerStep(l)
    \/ \E t \in Client \cup Drain : HandlePendingCommands(t)

\* The operating system runs every thread that can go on.  Weak fairness is
\* enough: a lock is taken finitely often, since packets and calls are.  No
\* caller is obliged to create, destroy or send anything.
Fairness ==
    /\ \A t \in Client \cup Daemon : WF_vars(Register(t))
    /\ \A c \in Client : WF_vars(ClientStep(c))
    /\ \A l \in Listener : WF_vars(ListenerStep(l))
    /\ \A t \in Client \cup Drain : WF_vars(HandlePendingCommands(t))

Spec == Init /\ [][Next]_vars /\ Fairness

---------------------------------------------------------------------------
(* Safety                                                                  *)

\* There is never a second listener: qrtr_fd_ is not reset when the service
\* is torn down, so RegisterCallback starts event_thread_ at most once, even
\* while the first one has not yet noticed that it should exit.
OneListener ==
    \A k, l \in Listener : pc[k] # "off" /\ pc[l] # "off" => k = l

\* The composers the listener is calling exist: it holds qrtr_lock_ during
\* the loop over callbacks_, and Deinit deletes a composer only after
\* UnRegisterCallback has had that lock.
ListenerCallsLiveComposer ==
    \A l \in Listener : pc[l] = "dispatch" => pass[l] \subseteq alive

\* A command is handed to a composer at most once: the direct path and the
\* drains share nothing of it, pending_commands_ is cleared before the next
\* drain can take pending_cmd_lock_, and callbacks_ has one composer.
HandedOnce == \A c \in Cmd : given[c] <= 1

\* Deferred commands of one kind are handed over in the order in which they
\* came, whichever drain does it (multimap keeps equal keys in order).
DeferredInOrder ==
    [][\A i, j \in 1 .. Len(pending) :
          /\ i < j
          /\ KindOf[pending[i]] = KindOf[pending[j]]
          /\ fate[pending[j]] = "deferred"
          /\ fate'[pending[j]] # "deferred"
          => fate[pending[i]] # "deferred"]_vars

\* While no Create or Destroy is under way, ref_count_ counts the sessions
\* of a composer that exists and is registered, and a count of 0 leaves
\* nothing registered.
SessionBacked ==
    rec = NoOne =>
        IF refCount > 0
        THEN impl \in alive /\ Registered = {impl}
        ELSE Registered = {}

\* RegisterFirst drains pending_commands_ while it holds qrtr_lock_ and two
\* more locks; there is never anything in it at that point.
FirstDrainEmpty ==
    \A c \in Client : pc[c] \in {"dwant", "drain"} => pending = <<>>

\* While somebody is registered the socket is open and a listener serves it.
ServiceReachable ==
    (qrtr = NoOne /\ ~ NoCallbacks(callbacks)) =>
        fd = "open" /\ \E l \in Listener : pc[l] # "off"

\* Thread t waits for a lock that thread u has.
WaitsFor(t, u) ==
    \/ pc[t] \in {"init", "closing"} /\ rec = u
    \/ pc[t] \in {"reg", "undo", "unreg", "cleanup", "start", "got"} /\ qrtr = u
    \/ pc[t] \in {"dwant", "defer"} /\ pend = u
    \/ pc[t] \in {"dispatch", "call"} /\ rec = u /\ u # t

Blocked == {t \in Thread : \E u \in Thread : WaitsFor(t, u)}

\* A set of threads that go on only if another of them does: a deadlock.
WaitForEachOther(circle) == \A t \in circle : \E u \in circle : WaitsFor(t, u)

\* No threads wait for each other, or for themselves, but through the failure
\* path of RegisterCallback or an OnEvent: all other code takes
\* recursive_mutex_, qrtr_lock_ and pending_cmd_lock_ in this order and gives
\* them back.
CirclesHandOver ==
    \A circle \in (SUBSET Blocked) \ {{}} :
        WaitForEachOther(circle) =>
            \E t \in circle : pc[t] \in {"cleanup", "dispatch", "call"}

\* A command answered with status 0 is not dropped afterwards.
AckedNotLost == \A c \in Cmd : reply[c] = "ok" => fate[c] # "lost"

---------------------------------------------------------------------------
(* What the service implements                                             *)

\* The clients share a composer: between Creates and Destroys the composer
\* that is registered is the resource, a session is its use.
ComposerThere == {i \in Registered \cap alive : rec = NoOne}
SessionsOf ==
    [i \in Impl |-> {c \in Client : pc[c] \in {"open", "closing"} /\ inst[c] = i}]

Sharing ==
    INSTANCE SharedResources
        WITH Thing <- Impl, User <- Client,
             present <- ComposerThere, users <- SessionsOf

\* The sessions implement SharedResources: the first Create makes and
\* registers the composer, the others join the same one, and it goes with the
\* last session and not before, whatever fails in Create.
SessionsShared == Sharing!Spec

\* The commands in the hands of threads that are at certain places, and those
\* that wait in pending_commands_: a drain takes the position it works on from
\* todo before it calls.
InHand(threads, places) == {cmd[t] : t \in {t \in threads : pc[t] \in places}}
Waiting ==
    {pending[k] : k \in {k \in 1 .. Len(pending) :
                            pend # NoOne => k \in todo[pend]}}

SentCommands == {c \in Cmd : fate[c] # "unsent"}
UnreadCommands == Unread \cup InHand(Listener, {"got", "defer", "dispatch"})
StoredCommands == Waiting \cup InHand(Client \cup Drain, {"call"})

Ledger ==
    INSTANCE CommandLedger
        WITH Command <- Cmd, sent <- SentCommands, unread <- UnreadCommands,
             stored <- StoredCommands, answer <- reply

\* The service implements CommandLedger: every packet is decided about once,
\* and what was postponed is dealt with once, although the listener and any
\* number of drains work on the packets under different locks.
CommandsLedgered == Ledger!Spec

---------------------------------------------------------------------------
(* Liveness                                                                *)

\* Thread t is in a deadlock, or waits for one that is.
Stuck(t) == \E circle \in SUBSET Blocked : t \in circle /\ WaitForEachOther(circle)

\* A Create or a Destroy returns, or its caller is in one of the deadlocks
\* that CirclesHandOver describes, whatever fails on the way and whoever else
\* creates, destroys and registers meanwhile: no caller is left waiting for
\* recursive_mutex_, qrtr_lock_ or pending_cmd_lock_ whose owner has gone or
\* sleeps in poll (sdm_comp_impl.cpp:61, 87; sdm_comp_service.cpp:191, 277, 608).
CallsReturn ==
    \A c \in Client :
        pc[c] \notin {"idle", "open"} ~> pc[c] \in {"idle", "open"} \/ Stuck(c)

\* Create returns, with a session or with an error ("@return Returns 0 on
\* sucess otherwise errno", sdm_comp_interface.h:149).  It does not when the
\* set-up of the service fails, nor when CreateCore does.
CreateReturns ==
    \A c \in Client : pc[c] = "fetch" ~> pc[c] \in {"idle", "open"}

\* Destroy returns.
DestroyReturns ==
    \A c \in Client : pc[c] = "closing" ~> pc[c] \in {"idle", "open"}

\* A command that was postponed reaches a composer or is rejected, once a
\* client creates a session and keeps it.
DeferredIsHandled ==
    \A c \in Cmd, s \in Client :
        fate[c] = "deferred" /\ pc[s] = "open"
            ~> fate[c] \in {"reached", "done"}

\* Every command of the service's own range is answered, unless the service
\* goes away before.
CommandAnswered ==
    \A c \in Cmd :
        fate[c] = "sent" /\ KindOf[c] \notin {"control", "extension"}
            ~> reply[c] # "none" \/ fd = "closed"

\* When the last registration goes, the listener stops.
ListenerExits ==
    \A l \in Listener : fd = "closed" /\ NoCallbacks(callbacks)
        ~> pc[l] = "off" \/ ~ NoCallbacks(callbacks)

=============================================================================
