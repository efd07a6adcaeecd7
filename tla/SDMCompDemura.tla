---------------------------- MODULE SDMCompDemura ----------------------------
(***************************************************************************)
(* The demura buffers of a panel, from the command that exports one to the *)
(* display core that corrects the panel with it: HandleImportDemuraBuffers *)
(* of sdm_comp_service.cpp, OnEvent and SDMCompIPCImpl of                  *)
(* sdm_comp_impl.cpp, and the property of SDMCompProperties that allows    *)
(* it.                                                                     *)
(*                                                                         *)
(* One handler runs in several threads, the workers: worker 0 is the event *)
(* thread, worker s the drain of pending_commands_ that session s started. *)
(* A session lasts from the Init of a composer to its Deinit; its clients  *)
(* count as one here, and the locks are those of SDMCompService:           *)
(* recursive_mutex_ is taken while a session starts or stops and by        *)
(* OnEvent and ProcessOps, qrtr_lock_ by the event thread with a command   *)
(* and to register, pending_cmd_lock_ by a drain.  A daemon keeps the      *)
(* event thread running, so commands are heard without a session.          *)
(*                                                                         *)
(* A drain that calls a composer that has been deleted goes on as if its   *)
(* memory were still there, as in SDMCompService.                          *)
(***************************************************************************)
EXTENDS SDMCompProperties

CONSTANTS
    Demura,         \* the key ENABLE_DEMURA
    MaxCmd,         \* bound: commands that export a buffer
    MaxSession,     \* bound: sessions
    WithMemory      \* commands with a handle of memory (not -1)

Cmd == 1 .. MaxCmd          \* in the order they arrive
Session == 1 .. MaxSession
Worker == 0 .. MaxSession

ASSUME DemuraConstants ==
    /\ Demura \in Key
    /\ MaxCmd \in Nat /\ MaxSession \in Nat
    /\ WithMemory \subseteq Cmd

VARIABLES
    session,    \* what the clients are doing
    number,     \* sessions so far
    composer,   \* sdm_comp_impl_, by the session that made it
    callback,   \* the composer in callbacks_, 0 none
    ipc,        \* hfc_buf_info_ of ipc_intf_, and the session that stored it
    heard,      \* commands the event thread has read
    pending,    \* pending_commands_, in the order of the commands
    work,       \* where each worker is
    todo,       \* commands a drain has still to visit
    answer,     \* the status sent for each command
    kept,       \* commands whose buffer was stored
    core        \* what the core last got from ProcessOps

sessionVars == <<session, number, composer, callback>>
demuraVars == <<sessionVars, ipc, heard, pending, work, todo, answer, kept, core>>
vars == <<propertyVars, demuraVars>>

Buffer == [cmd : 0 .. MaxCmd, stored : 0 .. MaxSession]
NoBuffer == [cmd |-> 0, stored |-> 0]      \* fd -1

Place == {"off", "wait", "next", "property", "import", "fetch", "call", "defer"}
Status == {"none", "later", "ok", "error"}
Work == [pc : Place, cmd : 0 .. MaxCmd, fd : {"none", "open"}, composer : 0 .. MaxSession]

DemuraTypeOK ==
    /\ session \in {"none", "starting", "ready", "leaving", "stopping"}
    /\ number \in 0 .. MaxSession
    /\ composer \in 0 .. MaxSession /\ callback \in 0 .. MaxSession
    /\ ipc \in Buffer
    /\ heard \in 0 .. MaxCmd
    /\ pending \subseteq Cmd
    /\ work \in [Worker -> Work]
    /\ todo \in [Worker -> SUBSET Cmd]
    /\ answer \in [Cmd -> Status]
    /\ kept \subseteq Cmd
    /\ core \in [buffer : Buffer, session : 0 .. MaxSession]
TypeOK == PropertyTypeOK /\ DemuraTypeOK

Resting(pc) == [pc |-> pc, cmd |-> 0, fd |-> "none", composer |-> 0]

Init ==
    /\ PropertyInit
    /\ session = "none" /\ number = 0 /\ composer = 0 /\ callback = 0
    /\ ipc = NoBuffer
    /\ heard = 0 /\ pending = {}
    /\ work = [w \in Worker |-> Resting("off")]
    /\ todo = [w \in Worker |-> {}]
    /\ answer = [c \in Cmd |-> "none"]
    /\ kept = {}
    /\ core = [buffer |-> NoBuffer, session |-> 0]

---------------------------------------------------------------------------
(* Sessions                                                                *)

RecFree == session \in {"none", "ready"}
QrtrFree == work[0].pc = "off"
PendFree == \A s \in Session : work[s].pc \in {"off", "wait"}

\* Init takes recursive_mutex_, registers and starts a drain.  A composer that
\* is still there is used again.
Register ==
    /\ session = "none" /\ stage[Handler] = "in" /\ QrtrFree
    /\ number < MaxSession
    /\ session' = "starting"
    /\ number' = number + 1
    /\ composer' = IF composer = 0 THEN number' ELSE composer
    /\ callback' = composer'
    /\ work' = [work EXCEPT ![number'] = Resting("wait")]
    /\ UNCHANGED <<propertyVars, ipc, heard, pending, todo, answer, kept, core>>

\* A new SDMCompIPCImpl goes to CreateCore.
CreateCoreKeepingIPC ==
    /\ session = "starting"
    /\ session' = "ready"
    /\ UNCHANGED <<propertyVars, number, composer, callback, ipc, heard, pending,
                   work, todo, answer, kept, core>>
CreateCore ==
    /\ session = "starting"
    /\ ipc' = NoBuffer
    /\ session' = "ready"
    /\ UNCHANGED <<propertyVars, number, composer, callback, heard, pending, work,
                   todo, answer, kept, core>>

\* CreateCore fails: the registration is taken back, the composer stays.
CreateCoreFails ==
    /\ session = "starting" /\ QrtrFree
    /\ ipc' = NoBuffer
    /\ session' = "none" /\ callback' = 0
    /\ UNCHANGED <<propertyVars, number, composer, heard, pending, work, todo,
                   answer, kept, core>>

\* The last Deinit: the lock, the registration, the core.
Leave ==
    /\ session = "ready"
    /\ session' = "leaving"
    /\ UNCHANGED <<propertyVars, number, composer, callback, ipc, heard, pending,
                   work, todo, answer, kept, core>>

Unregister ==
    /\ session = "leaving" /\ QrtrFree
    /\ session' = "stopping" /\ callback' = 0
    /\ UNCHANGED <<propertyVars, number, composer, ipc, heard, pending, work, todo,
                   answer, kept, core>>

\* The buffer is forgotten and the composer deleted, or, when the core cannot
\* be destroyed, neither.
DestroyCore ==
    /\ session = "stopping"
    /\ session' = "none" /\ composer' = 0
    /\ ipc' = NoBuffer
    /\ UNCHANGED <<propertyVars, number, callback, heard, pending, work, todo,
                   answer, kept, core>>

DestroyCoreFails ==
    /\ session = "stopping"
    /\ session' = "none"
    /\ UNCHANGED <<propertyVars, number, composer, callback, ipc, heard, pending,
                   work, todo, answer, kept, core>>

\* The core asks for the buffers.
ProcessOps ==
    /\ session = "ready"
    /\ core' = [buffer |-> ipc, session |-> number]
    /\ UNCHANGED <<propertyVars, sessionVars, ipc, heard, pending, work, todo,
                   answer, kept>>

SessionNext ==
    \/ Register \/ CreateCore \/ CreateCoreFails
    \/ Leave \/ Unregister \/ DestroyCore \/ DestroyCoreFails
    \/ ProcessOps

---------------------------------------------------------------------------
(* Commands                                                                *)

Goto(w, pc) == work' = [work EXCEPT ![w].pc = pc]

\* A worker is through with its command: the event thread answers and is free,
\* a drain goes on.
Finish(w, status) ==
    /\ work' = [work EXCEPT ![w] = Resting(IF w = 0 THEN "off" ELSE "next")]
    /\ answer' = IF w = 0 THEN [answer EXCEPT ![work[0].cmd] = status] ELSE answer

\* CommandHandler: with nobody registered the command is put off.
Receive ==
    /\ QrtrFree /\ stage[Handler] = "in" /\ heard < MaxCmd
    /\ heard' = heard + 1
    /\ work' = [work EXCEPT ![0] =
                  [Resting(IF callback = 0 THEN "defer" ELSE "property")
                   EXCEPT !.cmd = heard']]
    /\ UNCHANGED <<propertyVars, sessionVars, ipc, pending, todo, answer, kept, core>>

Defer ==
    /\ work[0].pc = "defer" /\ PendFree
    /\ pending' = pending \cup {work[0].cmd}
    /\ Finish(0, "later")
    /\ UNCHANGED <<propertyVars, sessionVars, ipc, heard, todo, kept, core>>

\* kCmdSetProperties is handled with nobody registered too.
HandleSetProperties ==
    /\ QrtrFree /\ stage[Handler] = "in"
    /\ \E k \in Key, v \in Value : SetProperty(k, v)
    /\ UNCHANGED demuraVars

\* HandleImportDemuraBuffers, to its first return.
DemuraOff(w) ==
    /\ work[w].pc = "property"
    /\ 0 \in GetProperty(Demura)
    /\ Finish(w, "error")
    /\ UNCHANGED <<propertyVars, sessionVars, ipc, heard, pending, todo, kept, core>>

DemuraOn(w) ==
    /\ work[w].pc = "property"
    /\ \E v \in GetProperty(Demura) : v # 0
    /\ Goto(w, IF work[w].cmd \in WithMemory THEN "import" ELSE "fetch")
    /\ UNCHANGED <<propertyVars, sessionVars, ipc, heard, pending, todo, answer,
                   kept, core>>

\* The descriptor is one that SetParameter takes, above 0: the process keeps
\* its standard input open.
Import(w) ==
    /\ work[w].pc = "import"
    /\ work' = [work EXCEPT ![w].pc = "fetch", ![w].fd = "open"]
    /\ UNCHANGED <<propertyVars, sessionVars, ipc, heard, pending, todo, answer,
                   kept, core>>

ImportFailsGoesOn(w) ==
    /\ work[w].pc = "import"
    /\ Goto(w, "fetch")
    /\ UNCHANGED <<propertyVars, sessionVars, ipc, heard, pending, todo, answer,
                   kept, core>>
ImportFails(w) ==
    /\ work[w].pc = "import"
    /\ Finish(w, "error")
    /\ UNCHANGED <<propertyVars, sessionVars, ipc, heard, pending, todo, kept, core>>

\* The loop over callbacks_; a drain has no qrtr_lock_ and may find it empty.
FetchCallback(w) ==
    /\ work[w].pc = "fetch"
    /\ IF callback = 0
       THEN Finish(w, "error")
       ELSE /\ work' = [work EXCEPT ![w].pc = "call", ![w].composer = callback]
            /\ UNCHANGED answer
    /\ UNCHANGED <<propertyVars, sessionVars, ipc, heard, pending, todo, kept, core>>

\* OnEvent and SetParameter: a buffer without a descriptor leaves the place as
\* it was, a deleted composer has a place that nobody reads.
OnEvent(w) ==
    /\ work[w].pc = "call" /\ RecFree
    /\ IF work[w].fd = "open" /\ work[w].composer = composer
       THEN /\ ipc' = [cmd |-> work[w].cmd, stored |-> number]
            /\ kept' = kept \cup {work[w].cmd}
       ELSE UNCHANGED <<ipc, kept>>
    /\ Finish(w, "ok")
    /\ UNCHANGED <<propertyVars, sessionVars, heard, pending, todo, core>>

\* No memory for the payload.
OnEventFails(w) ==
    /\ work[w].pc = "call" /\ RecFree
    /\ Finish(w, "error")
    /\ UNCHANGED <<propertyVars, sessionVars, ipc, heard, pending, todo, kept, core>>

\* HandlePendingCommands of session s.
DrainStarts(s) ==
    /\ work[s].pc = "wait" /\ PendFree
    /\ todo' = [todo EXCEPT ![s] = pending]
    /\ Goto(s, "next")
    /\ UNCHANGED <<propertyVars, sessionVars, ipc, heard, pending, answer, kept, core>>

DrainNext(s) ==
    /\ work[s].pc = "next"
    /\ \E c \in todo[s] :
          /\ \A d \in todo[s] : c <= d
          /\ todo' = [todo EXCEPT ![s] = @ \ {c}]
          /\ work' = [work EXCEPT ![s].pc = "property", ![s].cmd = c]
    /\ UNCHANGED <<propertyVars, sessionVars, ipc, heard, pending, answer, kept, core>>

DrainEnds(s) ==
    /\ work[s].pc = "next" /\ todo[s] = {}
    /\ pending' = {}
    /\ Goto(s, "off")
    /\ UNCHANGED <<propertyVars, sessionVars, ipc, heard, todo, answer, kept, core>>

HandleImportDemuraBuffers(w) ==
    \/ DemuraOff(w) \/ DemuraOn(w) \/ Import(w) \/ ImportFails(w)
    \/ FetchCallback(w) \/ OnEvent(w) \/ OnEventFails(w)

CommandNext ==
    \/ Receive \/ Defer \/ HandleSetProperties
    \/ \E w \in Worker : HandleImportDemuraBuffers(w)
    \/ \E s \in Session : DrainStarts(s) \/ DrainNext(s) \/ DrainEnds(s)

Next ==
    \/ ParserNext /\ UNCHANGED demuraVars
    \/ SessionNext
    \/ CommandNext

Spec == Init /\ [][Next]_vars

---------------------------------------------------------------------------
(* Properties                                                              *)

\* What the core of a session gets was stored in that session: no buffer
\* crosses from one to the next, not even when the core of the first could not
\* be destroyed and its composer, with the buffer, is used again
\* (sdm_comp_impl.cpp:73, :95-103 and :375-395).
SessionBuffers ==
    core.buffer.cmd # 0 => core.buffer.stored = core.session

\* Demura is on, by the first line of the file that says so.
Configured ==
    \E i \in DOMAIN PropertyFile :
        /\ PropertyFile[i].key = Demura /\ PropertyFile[i].value # 0
        /\ \A j \in 1 .. i - 1 : PropertyFile[j].key # Demura

\* The core gets a buffer only if the property file turns demura on, whatever
\* commands set and whoever creates and destroys parsers meanwhile
\* (sdm_comp_service.cpp:333-340, sdm_comp_debugger.cpp:275-277).
ImportAsConfigured == core.buffer.cmd # 0 => Configured

\* A buffer whose command was answered with 0 on the spot has reached the
\* composer: a failed import, a composer that is gone and demura being off all
\* show in the answer (sdm_comp_service.cpp:353-371).  (A descriptor 0 would
\* not show: SetParameter leaves it out, sdm_comp_impl.cpp:385; see Import.)
AnsweredIsKept == \A c \in WithMemory : answer[c] = "ok" => c \in kept
=============================================================================
