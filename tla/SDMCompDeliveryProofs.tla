----------------------- MODULE SDMCompDeliveryProofs -----------------------
(***************************************************************************)
(* What becomes of the commands: those postponed are dealt with in their   *)
(* order, whatever fails and however the callers behave, and, for callers  *)
(* that serialise Create and Destroy, every command is decided about once, *)
(* as CommandLedger says.                                                  *)
(***************************************************************************)
EXTENDS SDMCompSessionProofs

---------------------------------------------------------------------------
(* The inductive invariant of the order                                    *)

\* A packet in the socket is there once, and nothing has become of it yet.
InboxSent ==
    /\ \A k, m \in 1 .. Len(inbox) : inbox[k] = inbox[m] => k = m
    /\ \A k \in 1 .. Len(inbox) : fate[inbox[k]] = "sent"

\* What is in pending_commands_ is there once and was read before.
PendingRead ==
    /\ \A k, m \in 1 .. Len(pending) : pending[k] = pending[m] => k = m
    /\ \A k \in 1 .. Len(pending) : fate[pending[k]] \notin {"unsent", "sent"}

\* What the listener works on is neither in the socket nor stored.
ListenerAlone ==
    \A l \in Listener : Listening(l) =>
        /\ fate[cmd[l]] \in IF pc[l] = "dispatch" THEN {"sent", "reached"}
                            ELSE {"sent"}
        /\ \A k \in 1 .. Len(inbox) : inbox[k] # cmd[l]
        /\ \A k \in 1 .. Len(pending) : pending[k] # cmd[l]

\* A drain has dealt with the positions it no longer has to visit, but for
\* the one it works on, which comes before all that are left.
Handled(k) == fate[pending[k]] # "deferred"
Left(t) == (1 .. Len(pending)) \ todo[t]
WorksOn(t, k) ==
    /\ k \in Left(t) /\ pending[k] = cmd[t]
    /\ \A m \in todo[t] : Precedes(k, m)
    /\ \A m \in Left(t) \ {k} : Handled(m)
DrainInOrder ==
    \A t \in Client \cup Drain :
        /\ pc[t] = "drain" => \A m \in Left(t) : Handled(m)
        /\ pc[t] = "call" => \E k \in Left(t) : WorksOn(t, k)

\* Only commands for a composer are put off.
StoredKinds ==
    /\ \A k \in 1 .. Len(pending) : KindOf[pending[k]] \in ComposerKinds
    /\ \A l \in Listener : pc[l] = "defer" => KindOf[cmd[l]] \in ComposerKinds

PlaceInv == InboxSent /\ PendingRead /\ ListenerAlone /\ DrainInOrder

LEMMA InitPlaceInv == Init => PlaceInv
  BY Threads
  DEF Init, PlaceInv, InboxSent, PendingRead, ListenerAlone, Listening,
      DrainInOrder, Thread

---------------------------------------------------------------------------
(* Every step keeps the order                                              *)

\* The drains stay in order while pending_commands_ and their work stay as
\* they are and no command is put off that was not.
LEMMA DrainsFrame ==
  ASSUME Types, DrainInOrder, UNCHANGED pending,
         \A t \in Client \cup Drain :
            /\ pc'[t] \in {"drain", "call"} => pc'[t] = pc[t]
            /\ UNCHANGED <<todo[t], cmd[t]>>,
         \A c \in Cmd : fate'[c] = "deferred" => fate[c] = "deferred"
  PROVE  DrainInOrder'
<1>1. \A k \in 1 .. Len(pending) : pending[k] \in Cmd
  BY DEF Types, TypeOK, PacketsOK
<1>2. ASSUME NEW t \in Client \cup Drain
      PROVE  /\ Left(t)' = Left(t)
             /\ \A k \in Left(t) : Handled(k) => Handled(k)'
             /\ \A k \in Left(t) : WorksOn(t, k) => WorksOn(t, k)'
  BY <1>1 DEF Left, Handled, WorksOn, Precedes
<1> QED
  BY <1>2 DEF DrainInOrder

\* A step that leaves the packets, and the work of every thread, as they are.
LEMMA PlaceFrame ==
  ASSUME Types, PlaceInv, UNCHANGED <<inbox, pending, fate, cmd, todo>>,
         \A l \in Listener : \/ ~ Listening(l)' \/ pc'[l] = pc[l]
                             \/ pc[l] = "got" /\ pc'[l] \in {"defer", "dispatch"},
         \A t \in Client \cup Drain :
            pc'[t] \in {"drain", "call"} => pc'[t] = pc[t]
  PROVE  PlaceInv'
<1>1. ListenerAlone'
  BY DEF PlaceInv, ListenerAlone, Listening
<1>2. DrainInOrder'
  BY DrainsFrame DEF PlaceInv
<1> QED
  BY <1>1, <1>2 DEF PlaceInv, InboxSent, PendingRead

\* A packet that nobody has sent is sent.
LEMMA SendPlace ==
  ASSUME Types, PlaceInv, NEW c \in Cmd, Send(c)
  PROVE  PlaceInv'
<1> USE DEF Types, TypeOK, PacketsOK, PlaceInv
<1>1. /\ inbox' = Append(inbox, c) /\ inbox \in Seq(Cmd)
      /\ fate' = [fate EXCEPT ![c] = "sent"] /\ fate[c] = "unsent"
      /\ UNCHANGED <<pc, workVars, pending>>
  BY DEF Send
<1>2. /\ Len(inbox) \in Nat /\ Len(inbox') = Len(inbox) + 1
      /\ \A k \in 1 .. Len(inbox') :
            \/ /\ k \in 1 .. Len(inbox) /\ inbox'[k] = inbox[k]
               /\ inbox[k] \in Cmd \ {c}
            \/ k = Len(inbox) + 1 /\ inbox'[k] = c
  BY <1>1 DEF InboxSent
<1>3. \A d \in Cmd : d # c => fate'[d] = fate[d]
  BY <1>1
<1>4. InboxSent'
  <2>1. \A k, m \in 1 .. Len(inbox') : inbox'[k] = inbox'[m] => k = m
    BY <1>2 DEF InboxSent
  <2>2. \A k \in 1 .. Len(inbox') : fate'[inbox'[k]] = "sent"
    BY <1>1, <1>2, <1>3 DEF InboxSent
  <2> QED
    BY <2>1, <2>2 DEF InboxSent
<1>5. PendingRead'
  <2>1. \A k \in 1 .. Len(pending) : pending[k] \in Cmd /\ pending[k] # c
    BY <1>1 DEF PendingRead
  <2> QED
    BY <1>1, <1>3, <2>1 DEF PendingRead
<1>6. ListenerAlone'
  <2>1. ASSUME NEW l \in Listener, Listening(l)
        PROVE  /\ fate'[cmd[l]] = fate[cmd[l]]
               /\ \A k \in 1 .. Len(inbox') : inbox'[k] # cmd[l]
    <3>1. cmd[l] # c /\ cmd[l] \in Cmd
      BY <1>1, <2>1, RolePlaces DEF ListenerAlone, Listening, HasCommand
    <3> QED
      BY <1>2, <1>3, <2>1, <3>1 DEF ListenerAlone
  <2> QED
    BY <1>1, <2>1 DEF ListenerAlone, Listening, workVars
<1>7. DrainInOrder'
  BY <1>1, <1>3, DrainsFrame DEF workVars
<1> QED
  BY <1>4, <1>5, <1>6, <1>7

\* The last registration goes, and what is in the socket with it.
LEMMA UnregisterPlace ==
  ASSUME Types, PlaceInv, NEW t \in Client \cup Daemon, UnRegisterCallback(t)
  PROVE  PlaceInv'
<1> USE RolePlaces, Threads DEF Types, TypeOK, PcOK, PacketsOK, PlaceInv
<1>1. /\ UNCHANGED <<workVars, pending>>
      /\ pc' \in {[pc EXCEPT ![t] = "destroy"], [pc EXCEPT ![t] = "idle"]}
  BY DEF UnRegisterCallback, Goto
<1>2. \/ UNCHANGED <<inbox, fate>>
      \/ /\ inbox' = <<>>
         /\ fate' = [c \in Cmd |-> IF c \in Unread THEN "lost" ELSE fate[c]]
  BY DEF UnRegisterCallback
<1>3. \A l \in Listener : pc'[l] = pc[l]
  BY <1>1
<1>4. \A d \in Client \cup Drain :
         pc'[d] \in {"drain", "call"} => pc'[d] = pc[d]
  BY <1>1
<1>5. CASE UNCHANGED <<inbox, fate>>
  BY <1>1, <1>3, <1>4, <1>5, PlaceFrame DEF workVars
<1>6. CASE /\ inbox' = <<>>
           /\ fate' = [c \in Cmd |-> IF c \in Unread THEN "lost" ELSE fate[c]]
  <2>1. InboxSent'
    BY <1>6 DEF InboxSent
  <2>2. PendingRead'
    <3>1. \A k \in 1 .. Len(pending) : pending[k] \in Cmd
      OBVIOUS
    <3>2. \A k \in 1 .. Len(pending) :
             fate'[pending[k]] \notin {"unsent", "sent"}
      BY <1>6, <3>1 DEF PendingRead
    <3> QED
      BY <1>1, <3>2 DEF PendingRead
  <2>3. ListenerAlone'
    <3>1. ASSUME NEW l \in Listener, Listening(l)
          PROVE  fate'[cmd[l]] = fate[cmd[l]]
      <4>1. cmd[l] \in Cmd /\ cmd[l] \notin Unread
        BY <3>1 DEF HasCommand, Listening, ListenerAlone, Unread
      <4> QED
        BY <1>6, <4>1
    <3>2. UNCHANGED <<cmd, pending>> /\ \A k \in 1 .. Len(inbox') : FALSE
      BY <1>1, <1>6 DEF workVars
    <3> QED
      BY <1>3, <3>1, <3>2 DEF ListenerAlone, Listening
  <2>4. \A c \in Cmd : fate'[c] = "deferred" => fate[c] = "deferred"
    BY <1>6
  <2>5. DrainInOrder'
    BY <1>1, <1>4, <2>4, DrainsFrame DEF workVars
  <2> QED
    BY <2>1, <2>2, <2>3, <2>5
<1> QED
  BY <1>2, <1>5, <1>6

\* What the listener takes from the socket is nowhere else.
LEMMA ReceivePlace ==
  ASSUME Types, OneListener, PlaceInv, NEW l \in Listener, Receive(l)
  PROVE  PlaceInv'
<1> USE RolePlaces, Threads DEF Types, TypeOK, PcOK, PacketsOK, PlaceInv
<1>1. /\ inbox # <<>> /\ inbox \in Seq(Cmd)
      /\ inbox' = Tail(inbox)
      /\ cmd' = [cmd EXCEPT ![l] = inbox[1]]
      /\ pc' = [pc EXCEPT ![l] = "got"] /\ pc[l] = "recv"
      /\ UNCHANGED <<todo, pending, fate>>
  BY DEF Receive, Goto
<1>2. /\ Len(inbox) \in Nat \ {0} /\ 1 \in 1 .. Len(inbox)
      /\ \A k \in 1 .. Len(inbox') :
            k + 1 \in 1 .. Len(inbox) /\ inbox'[k] = inbox[k + 1]
  BY <1>1
<1>3. \A k \in Listener \ {l} : pc'[k] = "off"
  BY <1>1 DEF OneListener
<1>4. cmd'[l] = inbox[1]
  BY <1>1 DEF WorkOK
<1>5. InboxSent'
  <2>1. ASSUME NEW k \in 1 .. Len(inbox'), NEW m \in 1 .. Len(inbox'),
               inbox'[k] = inbox'[m]
        PROVE  k = m
    <3>1. /\ k + 1 \in 1 .. Len(inbox) /\ m + 1 \in 1 .. Len(inbox)
          /\ inbox[k + 1] = inbox[m + 1]
      BY <1>2, <2>1
    <3>2. k + 1 = m + 1
      BY <3>1 DEF InboxSent
    <3> QED
      BY <3>2
  <2>2. \A k \in 1 .. Len(inbox') : fate'[inbox'[k]] = "sent"
    BY <1>1, <1>2 DEF InboxSent
  <2> QED
    BY <2>1, <2>2 DEF InboxSent
<1>6. ListenerAlone'
  <2>1. fate[inbox[1]] = "sent"
    BY <1>2 DEF InboxSent
  <2>2. ASSUME NEW k \in 1 .. Len(inbox')
        PROVE  inbox'[k] # inbox[1]
    <3>1. k + 1 \in 1 .. Len(inbox) /\ k + 1 # 1 /\ inbox'[k] = inbox[k + 1]
      BY <1>2
    <3> QED
      BY <1>2, <3>1 DEF InboxSent
  <2>3. \A k \in 1 .. Len(pending) : pending[k] # inbox[1]
    BY <2>1 DEF PendingRead
  <2> QED
    BY <1>1, <1>3, <1>4, <2>1, <2>2, <2>3 DEF ListenerAlone, Listening
<1>7. DrainInOrder'
  <2>1. \A t \in Client \cup Drain : pc'[t] = pc[t] /\ cmd'[t] = cmd[t]
    BY <1>1 DEF WorkOK
  <2> QED
    BY <1>1, <2>1, DrainsFrame
<1> QED
  BY <1>1, <1>5, <1>6, <1>7 DEF PendingRead

\* The listener is done with its command, or calls one more composer.
LEMMA AnswerPlace ==
  ASSUME Types, OneListener, PlaceInv, NEW l \in Listener, Listening(l),
         NEW v \in {"done", "reached"}, fate' = [fate EXCEPT ![cmd[l]] = v],
         UNCHANGED <<todo, cmd, pending, inbox>>,
         \A t \in Thread \ {l} : pc'[t] = pc[t],
         pc'[l] = "loop" \/ (v = "reached" /\ pc'[l] = "dispatch")
  PROVE  PlaceInv'
<1> USE RolePlaces, Threads DEF Types, TypeOK, PcOK, PacketsOK, PlaceInv
<1>1. cmd[l] \in Cmd
  BY DEF HasCommand, Listening
<1>2. \A d \in Cmd : d # cmd[l] => fate'[d] = fate[d]
  OBVIOUS
<1>3. InboxSent'
  <2>1. \A k \in 1 .. Len(inbox) : inbox[k] \in Cmd /\ inbox[k] # cmd[l]
    BY DEF ListenerAlone
  <2> QED
    BY <1>2, <2>1 DEF InboxSent
<1>4. PendingRead'
  <2>1. \A k \in 1 .. Len(pending) : pending[k] \in Cmd /\ pending[k] # cmd[l]
    BY DEF ListenerAlone
  <2> QED
    BY <1>2, <2>1 DEF PendingRead
<1>5. ListenerAlone'
  <2>1. \A k \in Listener \ {l} : ~ Listening(k)'
    BY DEF OneListener, Listening
  <2> QED
    BY <1>1, <2>1 DEF ListenerAlone, Listening
<1>6. DrainInOrder'
  <2>1. \A t \in Client \cup Drain : pc'[t] = pc[t]
    OBVIOUS
  <2>2. \A c \in Cmd : fate'[c] = "deferred" => fate[c] = "deferred"
    BY <1>1
  <2> QED
    BY <2>1, <2>2, DrainsFrame
<1> QED
  BY <1>3, <1>4, <1>5, <1>6


\* A command is put off while no drain is under way.
LEMMA DeferPlace ==
  ASSUME Types, OneListener, PlaceInv, NEW l \in Listener, Defer(l)
  PROVE  PlaceInv'
<1> USE RolePlaces, Threads DEF Types, TypeOK, PcOK, PacketsOK, PlaceInv
<1> DEFINE c == cmd[l]
<1>1. /\ pc[l] = "defer" /\ pend = NoOne
      /\ pending' = Append(pending, c) /\ pending \in Seq(Cmd)
      /\ fate' = [fate EXCEPT ![c] = "deferred"]
      /\ pc' = [pc EXCEPT ![l] = "loop"]
      /\ UNCHANGED <<workVars, inbox>>
  BY DEF Defer, Postponed, Goto
<1>2. /\ c \in Cmd
      /\ \A k \in 1 .. Len(inbox) : inbox[k] # c
      /\ \A k \in 1 .. Len(pending) : pending[k] # c
  BY <1>1 DEF HasCommand, ListenerAlone, Listening
<1> HIDE DEF c
<1>3. /\ Len(pending) \in Nat /\ Len(pending') = Len(pending) + 1
      /\ \A k \in 1 .. Len(pending') :
            \/ /\ k \in 1 .. Len(pending) /\ pending'[k] = pending[k]
               /\ pending[k] \in Cmd \ {c}
            \/ k = Len(pending) + 1 /\ pending'[k] = c
  BY <1>1, <1>2
<1>4. \A d \in Cmd : d # c => fate'[d] = fate[d]
  BY <1>1
<1>5. InboxSent'
  <2>1. \A k \in 1 .. Len(inbox) : inbox[k] \in Cmd /\ inbox[k] # c
    BY <1>2
  <2> QED
    BY <1>1, <1>4, <2>1 DEF InboxSent
<1>6. PendingRead'
  <2>1. \A k, m \in 1 .. Len(pending') : pending'[k] = pending'[m] => k = m
    BY <1>3 DEF PendingRead
  <2>2. fate'[c] = "deferred"
    BY <1>1, <1>2
  <2>3. \A k \in 1 .. Len(pending') :
           fate'[pending'[k]] \notin {"unsent", "sent"}
    BY <1>3, <1>4, <2>2 DEF PendingRead
  <2> QED
    BY <2>1, <2>3 DEF PendingRead
<1>7. ListenerAlone'
  BY <1>1 DEF OneListener, ListenerAlone, Listening
<1>8. DrainInOrder'
  BY <1>1 DEF DrainInOrder, DrainOwns
<1> QED
  BY <1>5, <1>6, <1>7, <1>8

\* What a drain deals with is none of the listener's.
LEMMA DrainApart ==
  ASSUME Types, PlaceInv, NEW k \in 1 .. Len(pending),
         fate' = [fate EXCEPT ![pending[k]] = fate'[pending[k]]],
         fate'[pending[k]] \notin {"unsent", "sent"},
         UNCHANGED <<pending, inbox>>,
         \A l \in Listener : UNCHANGED <<pc[l], cmd[l]>>
  PROVE  InboxSent' /\ PendingRead' /\ ListenerAlone'
<1> USE RolePlaces, Threads DEF Types, TypeOK, PacketsOK, PlaceInv
<1> DEFINE c == pending[k]
<1>1. c \in Cmd /\ fate[c] \notin {"unsent", "sent"}
  BY DEF PendingRead
<1>2. \A d \in Cmd : d # c => fate'[d] = fate[d]
  OBVIOUS
<1>3. /\ fate'[c] \notin {"unsent", "sent"}
      /\ \A m \in 1 .. Len(pending) : pending[m] \in Cmd
  OBVIOUS
<1>4. InboxSent'
  <2>1. \A m \in 1 .. Len(inbox) : inbox[m] \in Cmd /\ inbox[m] # c
    BY <1>1 DEF InboxSent
  <2> QED
    BY <1>2, <2>1 DEF InboxSent
<1>5. PendingRead'
  <2>1. \A m \in 1 .. Len(pending) : fate'[pending[m]] \notin {"unsent", "sent"}
    BY <1>2, <1>3 DEF PendingRead
  <2> QED
    BY <2>1 DEF PendingRead
<1>6. ListenerAlone'
  <2>1. ASSUME NEW l \in Listener, Listening(l)
        PROVE  fate'[cmd[l]] = fate[cmd[l]]
    BY <1>1, <1>2, <2>1 DEF HasCommand, Listening, ListenerAlone
  <2> QED
    BY <2>1 DEF ListenerAlone, Listening
<1> QED
  BY <1>4, <1>5, <1>6

\* A drain begins, and no other is under way.
LEMMA DrainStartsPlace ==
  ASSUME Types, PlaceInv, NEW t \in Client \cup Drain, DrainStarts(t)
  PROVE  PlaceInv'
<1> USE RolePlaces, Threads DEF Types, TypeOK, PcOK, PlaceInv
<1>1. /\ pend = NoOne /\ pc' = [pc EXCEPT ![t] = "drain"]
      /\ todo' = [todo EXCEPT ![t] = 1 .. Len(pending)]
      /\ UNCHANGED <<cmd, packetVars>>
  BY DEF DrainStarts, Goto
<1>2. \A d \in Client \cup Drain : pc'[d] \in {"drain", "call"} => d = t
  BY <1>1 DEF DrainOwns
<1>3. pc'[t] = "drain" /\ todo'[t] = 1 .. Len(pending)
  BY <1>1 DEF WorkOK
<1>4. DrainInOrder'
  BY <1>1, <1>2, <1>3 DEF DrainInOrder, Left, packetVars
<1>5. \A l \in Listener : pc'[l] = pc[l]
  BY <1>1
<1>6. InboxSent' /\ PendingRead' /\ ListenerAlone'
  BY <1>1, <1>5
  DEF InboxSent, PendingRead, ListenerAlone, Listening, packetVars
<1> QED
  BY <1>4, <1>6

\* The next position precedes those that are left to visit.
LEMMA NextIsFirst ==
  ASSUME NEW t, NEW i \in todo[t], NextPending(t, i)
  PROVE  \A m \in todo[t] \ {i} : Precedes(i, m)
  BY DEF NextPending

\* A command is left out, or its loop over callbacks_ begins.
LEMMA DrainSkipsPlace ==
  ASSUME Types, PlaceInv, NEW t \in Client \cup Drain, DrainSkips(t)
  PROVE  PlaceInv'
<1> USE RolePlaces, Threads DEF Types, TypeOK, PcOK, PacketsOK, PlaceInv
<1>1. PICK i \in todo[t], v \in {"done", "lost"} :
         /\ todo' = [todo EXCEPT ![t] = @ \ {i}]
         /\ fate' = [fate EXCEPT ![pending[i]] = v]
  BY DEF DrainSkips
<1>2. /\ pc[t] = "drain" /\ pend = t /\ todo[t] \subseteq 1 .. Len(pending)
      /\ UNCHANGED <<pc, cmd, pending, inbox>>
  BY DEF DrainSkips, DrainOwns
<1>3. /\ pending[i] \in Cmd /\ fate'[pending[i]] = v
      /\ \A d \in Cmd : d # pending[i] => fate'[d] = fate[d]
  BY <1>1, <1>2
<1>4. InboxSent' /\ PendingRead' /\ ListenerAlone'
  BY <1>1, <1>2, <1>3, DrainApart
<1>5. todo'[t] = todo[t] \ {i}
  BY <1>1 DEF WorkOK
<1>6. \A m \in Left(t)' : Handled(m)'
  <2>1. \A m \in 1 .. Len(pending) : pending[m] \in Cmd
    OBVIOUS
  <2>2. \A m \in Left(t) : Handled(m)
    BY <1>2 DEF DrainInOrder
  <2>3. ASSUME NEW m \in Left(t)' PROVE Handled(m)'
    <3>1. m \in Left(t) \/ m = i
      BY <1>2, <1>5, <2>3 DEF Left
    <3>2. m \in 1 .. Len(pending)
      BY <1>2, <2>3 DEF Left
    <3> QED
      BY <1>2, <1>3, <2>1, <2>2, <3>1, <3>2 DEF Handled
  <2> QED
    BY <2>3
<1>7. \A d \in Client \cup Drain : pc'[d] \in {"drain", "call"} => d = t
  BY <1>2 DEF DrainOwns
<1>8. DrainInOrder'
  BY <1>2, <1>6, <1>7 DEF DrainInOrder
<1> QED
  BY <1>4, <1>8

LEMMA DrainFetchesPlace ==
  ASSUME Types, PlaceInv, NEW t \in Client \cup Drain, DrainFetches(t)
  PROVE  PlaceInv'
<1> USE RolePlaces, Threads DEF Types, TypeOK, PcOK, PacketsOK, PlaceInv
<1>1. PICK i \in todo[t] :
         /\ NextPending(t, i)
         /\ todo' = [todo EXCEPT ![t] = @ \ {i}]
         /\ cmd' = [cmd EXCEPT ![t] = pending[i]]
  BY DEF DrainFetches
<1>2. /\ pc[t] = "drain" /\ pend = t /\ todo[t] \subseteq 1 .. Len(pending)
      /\ pc' = [pc EXCEPT ![t] = "call"]
      /\ UNCHANGED <<pending, inbox, fate>>
  BY DEF DrainFetches, DrainOwns, Goto, packetVars
<1>3. /\ todo'[t] = todo[t] \ {i} /\ cmd'[t] = pending[i] /\ pc'[t] = "call"
      /\ \A l \in Listener : UNCHANGED <<pc[l], cmd[l]>>
  BY <1>1, <1>2 DEF WorkOK
<1>4. InboxSent' /\ PendingRead' /\ ListenerAlone'
  <2>1. InboxSent' /\ PendingRead'
    BY <1>2 DEF InboxSent, PendingRead
  <2>2. ASSUME NEW l \in Listener, Listening(l)'
        PROVE  Listening(l) /\ UNCHANGED <<pc[l], cmd[l]>>
    BY <1>3, <2>2 DEF Listening
  <2>3. UNCHANGED <<fate, inbox, pending>>
    BY <1>2
  <2>4. ListenerAlone'
    BY <2>2, <2>3 DEF ListenerAlone
  <2> QED
    BY <2>1, <2>4
<1>5. i \in Left(t)' /\ WorksOn(t, i)'
  <2>1. \A m \in todo'[t] : Precedes(i, m)'
    BY <1>1, <1>2, <1>3, NextIsFirst DEF Precedes
  <2>2. \A m \in Left(t)' \ {i} : Handled(m)'
    BY <1>2, <1>3 DEF DrainInOrder, Left, Handled
  <2>3. i \in Left(t)'
    BY <1>2, <1>3 DEF Left
  <2> QED
    BY <1>2, <1>3, <2>1, <2>2, <2>3 DEF WorksOn
<1>6. \A d \in Client \cup Drain : pc'[d] \in {"drain", "call"} => d = t
  BY <1>2 DEF DrainOwns
<1>7. DrainInOrder'
  BY <1>3, <1>5, <1>6 DEF DrainInOrder
<1> QED
  BY <1>4, <1>7

\* A composer gets a deferred command.
LEMMA DrainCallsPlace ==
  ASSUME Types, PlaceInv, NEW t \in Client \cup Drain, DrainCalls(t)
  PROVE  PlaceInv'
<1> USE RolePlaces, Threads DEF Types, TypeOK, PcOK, PacketsOK, PlaceInv
<1>1. PICK k \in Left(t) : WorksOn(t, k)
  BY DEF DrainCalls, DrainInOrder
<1>2. k \in 1 .. Len(pending) /\ pending[k] = cmd[t] /\ cmd[t] \in Cmd
  BY <1>1 DEF WorksOn, Left
<1>3. /\ pc[t] = "call" /\ pend = t
      /\ pc' \in {[pc EXCEPT ![t] = "drain"], [pc EXCEPT ![t] = "call"]}
      /\ fate' = [fate EXCEPT ![cmd[t]] = "reached"]
      /\ UNCHANGED <<todo, cmd, pending, inbox>>
  BY DEF DrainCalls, DrainOwns, Goto, HandOver
<1>4. /\ fate'[pending[k]] = "reached"
      /\ \A d \in Cmd : d # pending[k] => fate'[d] = fate[d]
  BY <1>2, <1>3
<1>5. InboxSent' /\ PendingRead' /\ ListenerAlone'
  BY <1>2, <1>3, <1>4, DrainApart
<1>6. Left(t)' = Left(t) /\ \A m \in Left(t) : Handled(m)'
  <2>1. Left(t)' = Left(t)
    BY <1>3 DEF Left
  <2>2. ASSUME NEW m \in Left(t) PROVE Handled(m)'
    <3>1. pending[m] \in Cmd /\ (m = k \/ Handled(m))
      BY <1>1 DEF WorksOn, Left
    <3> QED
      BY <1>3, <1>4, <3>1 DEF Handled
  <2> QED
    BY <2>1, <2>2
<1>7. WorksOn(t, k)'
  BY <1>1, <1>3, <1>6 DEF WorksOn, Precedes
<1>8. \A d \in Client \cup Drain : pc'[d] \in {"drain", "call"} => d = t
  BY <1>3 DEF DrainOwns
<1>9. DrainInOrder'
  BY <1>6, <1>7, <1>8 DEF DrainInOrder
<1> QED
  BY <1>5, <1>9

LEMMA DrainEndsPlace ==
  ASSUME Types, PlaceInv, NEW t \in Client \cup Drain, DrainEnds(t)
  PROVE  PlaceInv'
<1> USE RolePlaces, Threads DEF Types, TypeOK, PcOK, PlaceInv
<1>1. /\ pc[t] = "drain" /\ pend = t /\ pending' = <<>>
      /\ pc' \in {[pc EXCEPT ![t] = "core"], [pc EXCEPT ![t] = "off"]}
      /\ UNCHANGED <<workVars, inbox, fate>>
  BY DEF DrainEnds, PendingCleared, Goto, DrainOwns
<1>2. \A l \in Listener : pc'[l] = pc[l]
  BY <1>1
<1>3. \A d \in Client \cup Drain : pc'[d] \notin {"drain", "call"}
  BY <1>1 DEF DrainOwns
<1> QED
  BY <1>1, <1>2, <1>3
  DEF InboxSent, PendingRead, ListenerAlone, Listening, DrainInOrder, workVars

LEMMA NextPlace ==
  Types /\ OneListener /\ PlaceInv /\ [Next]_vars => PlaceInv'
<1> SUFFICES ASSUME Types, OneListener, PlaceInv, [Next]_vars
             PROVE  PlaceInv'
  OBVIOUS
<1> USE RolePlaces, Threads DEF Types, TypeOK, PcOK
<1>1. ASSUME NEW t \in Client \cup Daemon, Register(t)
      PROVE  PlaceInv'
  <2>1. CASE UnRegisterCallback(t)
    BY <2>1, UnregisterPlace
  <2>2. CASE RegisterMore(t)
    BY <2>2, PlaceFrame DEF RegisterMore, Goto, packetVars, workVars
  <2>3. CASE RegisterNoLib(t) \/ RegisterBreaks(t)
    BY <2>3, PlaceFrame
    DEF RegisterNoLib, RegisterBreaks, Goto, packetVars, workVars
  <2>4. CASE RegisterFirst(t)
    BY <2>4, PlaceFrame DEF RegisterFirst, Listening, packetVars, workVars
  <2> QED
    BY <1>1, <2>1, <2>2, <2>3, <2>4 DEF Register
<1>2. CASE Decision
  <2>1. ASSUME NEW c \in Client, CallCreate(c) \/ CallDestroy(c)
        PROVE  PlaceInv'
    BY <2>1, PlaceFrame DEF CallCreate, CallDestroy, Goto, packetVars, workVars
  <2>2. ASSUME NEW d \in Daemon, CallRegister(d) \/ CallUnregister(d)
        PROVE  PlaceInv'
    BY <2>2, PlaceFrame
    DEF CallRegister, CallUnregister, Goto, packetVars, workVars
  <2> QED
    BY <1>2, <2>1, <2>2, SendPlace DEF Decision
<1>3. ASSUME NEW c \in Client, ClientStep(c)
      PROVE  PlaceInv'
  BY <1>3, PlaceFrame
  DEF ClientStep, NewInstance, ReturnInstance, InitAgain, InitFirst,
      CreateCoreSucceeds, CreateCoreFails, DeinitShared, DeinitLast,
      DestroyCoreSucceeds, DestroyCoreFails, Goto, packetVars, workVars
<1>4. ASSUME NEW l \in Listener, ListenerStep(l)
      PROVE  PlaceInv'
  <2>1. CASE \/ ListenerStarts(l) \/ TestLoop(l) \/ PollFindsPacket(l)
             \/ PollFindsExit(l) \/ PollFindsError(l) \/ ReceiveFails(l)
             \/ ReceiveNothing(l)
    BY <2>1, PlaceFrame
    DEF ListenerStarts, TestLoop, PollFindsPacket, PollFindsExit,
        PollFindsError, ReceiveFails,
        ReceiveNothing, Goto, Listening, packetVars, workVars
  <2>2. CASE HandlePostpones(l)
    BY <2>2, PlaceFrame DEF HandlePostpones, Goto, packetVars, workVars
  <2>3. CASE HandleAccepts(l)
    BY <2>3, PlaceFrame DEF HandleAccepts, Goto, packetVars
  <2>4. CASE \/ HandleOther(l) \/ HandleBadPacket(l) \/ HandleByService(l)
             \/ HandleRejects(l)
    <3>1. /\ pc[l] = "got" /\ pc' = [pc EXCEPT ![l] = "loop"]
          /\ fate' = [fate EXCEPT ![cmd[l]] = "done"]
          /\ UNCHANGED <<todo, cmd, pending, inbox>>
      BY <2>4
      DEF HandleOther, HandleBadPacket, HandleByService, HandleRejects,
          Finish, Goto, workVars
    <3> QED
      BY <3>1, AnswerPlace DEF Listening
  <2>5. CASE Dispatch(l)
    <3>1. /\ pc[l] = "dispatch"
          /\ pc' = [pc EXCEPT ![l] = "loop"] \/ pc' = pc
          /\ fate' = [fate EXCEPT ![cmd[l]] = "reached"]
          /\ UNCHANGED <<todo, cmd, pending, inbox>>
      BY <2>5 DEF Dispatch, HandOver, Goto
    <3> QED
      BY <3>1, AnswerPlace DEF Listening
  <2> QED
    BY <1>4, <2>1, <2>2, <2>3, <2>4, <2>5, ReceivePlace, DeferPlace
    DEF ListenerStep, Handle
<1>5. ASSUME NEW t \in Client \cup Drain, HandlePendingCommands(t)
      PROVE  PlaceInv'
  BY <1>5, DrainStartsPlace, DrainSkipsPlace, DrainFetchesPlace,
     DrainCallsPlace, DrainEndsPlace
  DEF HandlePendingCommands
<1>6. CASE UNCHANGED vars
  BY <1>6, PlaceFrame DEF vars, packetVars, workVars
<1> QED
  BY <1>1, <1>2, <1>3, <1>4, <1>5, <1>6 DEF Next

---------------------------------------------------------------------------
(* The order                                                               *)

\* Only a drain deals with a command that was put off: what has been put off
\* is not in the socket and not with the listener.
LEMMA OnlyDrains ==
  ASSUME Types, PlaceInv, [Next]_vars, NEW j \in 1 .. Len(pending),
         fate[pending[j]] = "deferred", fate'[pending[j]] # "deferred"
  PROVE  \E t \in Client \cup Drain :
            \/ pc[t] = "drain" /\ j \in todo[t] /\ NextPending(t, j)
            \/ pc[t] = "call" /\ cmd[t] = pending[j]
<1> USE RolePlaces, Threads DEF Types, TypeOK, PcOK, PacketsOK, PlaceInv
<1> DEFINE c == pending[j]
<1>1. c \in Cmd /\ fate[c] = "deferred" /\ fate' # fate /\ fate'[c] # fate[c]
  OBVIOUS
<1>2. \A l \in Listener : Listening(l) => cmd[l] # c
  BY DEF ListenerAlone
<1>3. c \notin Unread
  BY DEF InboxSent, Unread
<1>4. ASSUME NEW d \in Cmd, NEW v, fate' = [fate EXCEPT ![d] = v]
      PROVE  d = c
  BY <1>1, <1>4
<1> HIDE DEF c
<1>5. ASSUME NEW t \in Client \cup Daemon, Register(t)
      PROVE  FALSE
  <2>1. CASE UnRegisterCallback(t)
    BY <1>1, <1>3, <2>1 DEF UnRegisterCallback
  <2> QED
    BY <1>1, <1>5, <2>1
    DEF Register, RegisterMore, RegisterNoLib, RegisterBreaks, RegisterFirst,
        packetVars
<1>6. CASE Decision
  <2>1. ASSUME NEW d \in Cmd, Send(d)
        PROVE  FALSE
    BY <1>1, <1>4, <2>1 DEF Send
  <2> QED
    BY <1>1, <1>6, <2>1
    DEF Decision, CallCreate, CallDestroy, CallRegister, CallUnregister,
        packetVars
<1>7. ASSUME NEW d \in Client, ClientStep(d)
      PROVE  FALSE
  BY <1>1, <1>7
  DEF ClientStep, NewInstance, ReturnInstance, InitAgain, InitFirst,
      CreateCoreSucceeds, CreateCoreFails, DeinitShared, DeinitLast,
      DestroyCoreSucceeds, DestroyCoreFails, packetVars
<1>8. ASSUME NEW l \in Listener, ListenerStep(l)
      PROVE  FALSE
  <2>1. \/ UNCHANGED fate
        \/ Listening(l) /\ \E v : fate' = [fate EXCEPT ![cmd[l]] = v]
    BY <1>8
    DEF ListenerStep, Handle, ListenerStarts, TestLoop, PollFindsPacket,
        PollFindsExit, PollFindsError, Receive, ReceiveFails,
        ReceiveNothing, HandleOther,
        HandleBadPacket, HandleByService, HandleRejects, HandleAccepts,
        HandlePostpones, Defer, Dispatch, Finish, HandOver, Listening,
        packetVars
  <2>2. Listening(l) => cmd[l] \in Cmd
    BY DEF HasCommand, Listening
  <2> QED
    BY <1>1, <1>2, <1>4, <2>1, <2>2
<1>9. ASSUME NEW t \in Client \cup Drain, HandlePendingCommands(t)
      PROVE  \/ pc[t] = "drain" /\ j \in todo[t] /\ NextPending(t, j)
             \/ pc[t] = "call" /\ cmd[t] = pending[j]
  <2>1. CASE DrainSkips(t)
    <3>1. PICK i \in todo[t], v \in {"done", "lost"} :
             NextPending(t, i) /\ fate' = [fate EXCEPT ![pending[i]] = v]
      BY <2>1 DEF DrainSkips
    <3>2. pc[t] = "drain" /\ i \in 1 .. Len(pending)
      BY <2>1 DEF DrainSkips, DrainOwns
    <3>3. pending[i] \in Cmd
      BY <3>2
    <3>4. pending[i] = c
      BY <1>4, <3>1, <3>3
    <3> QED
      BY <3>1, <3>2, <3>4 DEF PendingRead, c
  <2>2. CASE DrainCalls(t)
    <3>1. pc[t] = "call" /\ cmd[t] \in Cmd
      BY <2>2 DEF DrainCalls, HasCommand
    <3>2. fate' = [fate EXCEPT ![cmd[t]] = "reached"]
      BY <2>2 DEF DrainCalls, HandOver
    <3> QED
      BY <1>4, <3>1, <3>2 DEF c
  <2>3. CASE DrainStarts(t) \/ DrainFetches(t) \/ DrainEnds(t)
    BY <1>1, <2>3 DEF DrainStarts, DrainFetches, DrainEnds, packetVars
  <2> QED
    BY <1>9, <2>1, <2>2, <2>3 DEF HandlePendingCommands
<1>10. CASE UNCHANGED vars
  BY <1>1, <1>10 DEF vars, packetVars
<1> QED
  BY <1>5, <1>6, <1>7, <1>8, <1>9, <1>10 DEF Next

LEMMA InitKinds == Init => StoredKinds
  BY Threads DEF Init, StoredKinds, Thread

LEMMA NextKinds == Types /\ StoredKinds /\ [Next]_vars => StoredKinds'
<1> SUFFICES ASSUME Types, StoredKinds, [Next]_vars PROVE StoredKinds'
  OBVIOUS
<1> USE RolePlaces, Threads DEF Types, TypeOK, PcOK, PacketsOK
<1>1. ASSUME UNCHANGED <<cmd, pending>>,
             \A l \in Listener : pc'[l] = "defer" =>
                pc[l] = "defer" \/ KindOf[cmd[l]] \in ComposerKinds
      PROVE  StoredKinds'
  BY <1>1 DEF StoredKinds
<1>2. ASSUME NEW t \in Client \cup Daemon, Register(t)
      PROVE  StoredKinds'
  BY <1>1, <1>2
  DEF Register, RegisterMore, RegisterNoLib, RegisterBreaks, RegisterFirst,
      UnRegisterCallback, Goto, packetVars, workVars
<1>3. CASE Decision
  BY <1>1, <1>3
  DEF Decision, CallCreate, CallDestroy, CallRegister, CallUnregister, Send,
      Goto, packetVars, workVars
<1>4. ASSUME NEW c \in Client, ClientStep(c)
      PROVE  StoredKinds'
  BY <1>1, <1>4
  DEF ClientStep, NewInstance, ReturnInstance, InitAgain, InitFirst,
      CreateCoreSucceeds, CreateCoreFails, DeinitShared, DeinitLast,
      DestroyCoreSucceeds, DestroyCoreFails, Goto, packetVars, workVars
<1>5. ASSUME NEW l \in Listener, ListenerStep(l)
      PROVE  StoredKinds'
  <2>1. CASE Receive(l)
    <3>1. pc' = [pc EXCEPT ![l] = "got"] /\ pending' = pending
      BY <2>1 DEF Receive, Goto
    <3>2. \A k \in Listener \ {l} : pc'[k] = pc[k] /\ cmd'[k] = cmd[k]
      BY <2>1, <3>1 DEF Receive, WorkOK
    <3> QED
      BY <3>1, <3>2 DEF StoredKinds
  <2>2. CASE Defer(l)
    <3>1. /\ pending' = Append(pending, cmd[l]) /\ cmd' = cmd
          /\ pc[l] = "defer" /\ pc' = [pc EXCEPT ![l] = "loop"]
      BY <2>2 DEF Defer, Postponed, Goto, workVars
    <3>2. pending \in Seq(Cmd) /\ cmd[l] \in Cmd
      BY <3>1 DEF HasCommand
    <3>3. \A k \in 1 .. Len(pending') :
             \/ k \in 1 .. Len(pending) /\ pending'[k] = pending[k]
             \/ pending'[k] = cmd[l]
      BY <3>1, <3>2
    <3>4. \A k \in Listener : pc'[k] = "defer" => pc[k] = "defer"
      BY <3>1
    <3> QED
      BY <3>1, <3>3, <3>4 DEF StoredKinds
  <2> QED
    BY <1>1, <1>5, <2>1, <2>2
    DEF ListenerStep, Handle, ListenerStarts, TestLoop, PollFindsPacket,
        PollFindsExit, PollFindsError, ReceiveFails,
        ReceiveNothing, HandleOther,
        HandleBadPacket, HandleByService, HandleRejects, HandleAccepts,
        HandlePostpones, Dispatch, Finish, Goto, packetVars, workVars
<1>6. ASSUME NEW t \in Client \cup Drain, HandlePendingCommands(t)
      PROVE  StoredKinds'
  <2>1. /\ pending' \in {pending, <<>>}
        /\ \A l \in Listener : pc'[l] = pc[l] /\ cmd'[l] = cmd[l]
    BY <1>6
    DEF HandlePendingCommands, DrainStarts, DrainSkips, DrainFetches,
        DrainCalls, DrainEnds, PendingCleared, Goto, WorkOK, packetVars,
        workVars
  <2>2. \A k \in 1 .. Len(pending') : KindOf[pending'[k]] \in ComposerKinds
    <3>1. CASE pending' = pending
      BY <3>1 DEF StoredKinds
    <3>2. CASE pending' = <<>>
      BY <3>2
    <3> QED
      BY <2>1, <3>1, <3>2
  <2>3. \A l \in Listener :
           pc'[l] = "defer" => KindOf[cmd'[l]] \in ComposerKinds
    BY <2>1 DEF StoredKinds
  <2> QED
    BY <2>2, <2>3 DEF StoredKinds
<1>7. CASE UNCHANGED vars
  BY <1>1, <1>7 DEF vars, packetVars, workVars
<1> QED
  BY <1>2, <1>3, <1>4, <1>5, <1>6, <1>7 DEF Next

\* Of two commands of a kind the one that came first precedes the other.
LEMMA EarlierFirst ==
  ASSUME StoredKinds, NEW i \in 1 .. Len(pending), NEW j \in 1 .. Len(pending),
         i < j, KindOf[pending[i]] = KindOf[pending[j]]
  PROVE  ~ Precedes(j, i)
<1>1. Rank[KindOf[pending[i]]] \in 0 .. 2
  BY DEF Rank, StoredKinds, ComposerKinds
<1> QED
  BY <1>1 DEF Precedes

\* Deferred commands of one kind are handed over, rejected or given up in the
\* order in which they came, whatever fails and however the callers behave:
\* a drain goes through them by identifier and arrival, and between its start
\* and its clear() it has pending_commands_ to itself.
THEOREM DeferredKeepOrder == Spec => DeferredInOrder
<1> DEFINE InOrder ==
       \A i, j \in 1 .. Len(pending) :
          /\ i < j
          /\ KindOf[pending[i]] = KindOf[pending[j]]
          /\ fate[pending[j]] = "deferred"
          /\ fate'[pending[j]] # "deferred"
          => fate[pending[i]] # "deferred"
<1>1. Init => Types /\ PlaceInv /\ StoredKinds
  BY InitTypes, InitPlaceInv, InitKinds
<1>2. Types /\ OneListener /\ PlaceInv /\ StoredKinds /\ [Next]_vars
        => Types' /\ PlaceInv' /\ StoredKinds'
  BY NextTypes, NextPlace, NextKinds
<1>3. Types /\ PlaceInv /\ StoredKinds /\ [Next]_vars => InOrder
  <2> SUFFICES ASSUME Types, PlaceInv, StoredKinds, [Next]_vars,
                      NEW i \in 1 .. Len(pending), NEW j \in 1 .. Len(pending),
                      i < j, KindOf[pending[i]] = KindOf[pending[j]],
                      fate[pending[j]] = "deferred",
                      fate'[pending[j]] # "deferred"
               PROVE  fate[pending[i]] # "deferred"
    OBVIOUS
  <2>1. ~ Precedes(j, i)
    BY EarlierFirst
  <2>2. PICK t \in Client \cup Drain :
           \/ pc[t] = "drain" /\ j \in todo[t] /\ NextPending(t, j)
           \/ pc[t] = "call" /\ cmd[t] = pending[j]
    BY OnlyDrains
  <2>3. CASE pc[t] = "drain" /\ j \in todo[t] /\ NextPending(t, j)
    <3>1. i \notin todo[t]
      BY <2>1, <2>3 DEF NextPending
    <3> QED
      BY <2>3, <3>1 DEF PlaceInv, DrainInOrder, Left, Handled
  <2>4. CASE pc[t] = "call" /\ cmd[t] = pending[j]
    <3>1. PICK k \in Left(t) : WorksOn(t, k)
      BY <2>4 DEF PlaceInv, DrainInOrder
    <3>2. k = j
      BY <2>4, <3>1 DEF PlaceInv, PendingRead, WorksOn, Left
    <3>3. i \notin todo[t]
      BY <2>1, <3>1, <3>2 DEF WorksOn
    <3> QED
      BY <3>1, <3>2, <3>3 DEF WorksOn, Left, Handled
  <2> QED
    BY <2>2, <2>3, <2>4
<1> QED
  BY <1>1, <1>2, <1>3, SingleListener, PTL DEF Spec, DeferredInOrder

---------------------------------------------------------------------------
(* The service implements CommandLedger                                    *)

\* What is unread: the packets of the socket and what the listener has.
UnreadAs ==
    /\ \A l \in Listener : Listening(l) => UnreadCommands = Unread \cup {cmd[l]}
    /\ (\A l \in Listener : ~ Listening(l)) => UnreadCommands = Unread
LEMMA UnreadIs == OneListener => UnreadAs
<1> SUFFICES ASSUME OneListener PROVE UnreadAs
  OBVIOUS
<1>1. \A k, l \in Listener : Listening(k) /\ Listening(l) => k = l
  BY DEF OneListener, Listening
<1> QED
  BY <1>1 DEF UnreadAs, UnreadCommands, InHand, Listening

\* What is stored: all of pending_commands_, or what a drain has left of it
\* and the command it works on.
StoredAs ==
    /\ pend = NoOne => StoredCommands = {pending[k] : k \in 1 .. Len(pending)}
    /\ \A t \in Client \cup Drain :
          /\ pc[t] = "drain" => StoredCommands = {pending[k] : k \in todo[t]}
          /\ pc[t] = "call" =>
                StoredCommands = {pending[k] : k \in todo[t]} \cup {cmd[t]}
LEMMA StoredIs == Types => StoredAs
<1> SUFFICES ASSUME Types PROVE StoredAs
  OBVIOUS
<1> USE RolePlaces, Threads
<1>1. \A t \in Client \cup Drain :
         pc[t] \in {"drain", "call"} =>
            pend = t /\ pend # NoOne /\ todo[t] \subseteq 1 .. Len(pending)
  BY DEF Types, DrainOwns
<1>2. CASE pend = NoOne
  <2>1. InHand(Client \cup Drain, {"call"}) = {}
    BY <1>1, <1>2 DEF InHand
  <2>2. Waiting = {pending[k] : k \in 1 .. Len(pending)}
    BY <1>2 DEF Waiting
  <2> QED
    BY <1>1, <1>2, <2>1, <2>2 DEF StoredAs, StoredCommands
<1>3. ASSUME NEW t \in Client \cup Drain, pc[t] \in {"drain", "call"}
      PROVE  /\ Waiting = {pending[k] : k \in todo[t]}
             /\ InHand(Client \cup Drain, {"call"})
                   = IF pc[t] = "call" THEN {cmd[t]} ELSE {}
  <2>1. \A d \in Client \cup Drain : pc[d] = "call" => d = t
    BY <1>1, <1>3
  <2>2. InHand(Client \cup Drain, {"call"})
           = IF pc[t] = "call" THEN {cmd[t]} ELSE {}
    BY <2>1 DEF InHand
  <2>3. {k \in 1 .. Len(pending) : pend # NoOne => k \in todo[pend]} = todo[t]
    BY <1>1, <1>3
  <2> QED
    BY <2>2, <2>3 DEF Waiting
<1>4. CASE pend # NoOne
  BY <1>3, <1>4 DEF StoredAs, StoredCommands
<1> QED
  BY <1>2, <1>4

\* What is unread was sent, and a command is not answered before it is
\* decided about.
Unanswered ==
    /\ UnreadCommands \subseteq SentCommands
    /\ \A c \in Cmd : c \notin SentCommands \/ c \in UnreadCommands
                         => reply[c] = "none"

\* The invariants that a step of the service relies on.
LedgerInv ==
    /\ Types /\ OneListener /\ SessionInv /\ CommandInv
    /\ UnreadAs /\ StoredAs /\ Unanswered

\* Steps that only move threads leave the ledger as it is.
LEMMA LedgerFrame ==
  ASSUME UNCHANGED <<fate, reply, given, inbox, pending, pend>>,
         \A l \in Listener :
            /\ Listening(l)' <=> Listening(l)
            /\ Listening(l) => cmd'[l] = cmd[l],
         \A t \in Client \cup Drain :
            /\ pc'[t] = "call" <=> pc[t] = "call"
            /\ pc[t] = "call" => cmd'[t] = cmd[t],
         UNCHANGED todo
  PROVE  UNCHANGED Ledger!ledgerVars
<1>1. InHand(Listener, {"got", "defer", "dispatch"})'
        = InHand(Listener, {"got", "defer", "dispatch"})
  BY DEF InHand, Listening
<1>2. InHand(Client \cup Drain, {"call"})' = InHand(Client \cup Drain, {"call"})
  BY DEF InHand
<1>3. Unread' = Unread /\ Waiting' = Waiting
  BY DEF Unread, Waiting
<1> QED
  BY <1>1, <1>2, <1>3
  DEF Ledger!ledgerVars, SentCommands, UnreadCommands, StoredCommands

\* What is stored is the same while only listeners, or callers outside a
\* drain, do something.
LEMMA StoredFrame ==
  ASSUME UNCHANGED <<pending, pend, todo>>,
         \A t \in Client \cup Drain :
            /\ pc'[t] = "call" <=> pc[t] = "call"
            /\ pc[t] = "call" => cmd'[t] = cmd[t]
  PROVE  StoredCommands' = StoredCommands
  BY DEF StoredCommands, Waiting, InHand

\* What is unread is the same while no listener does something.
LEMMA UnreadFrame ==
  ASSUME UNCHANGED inbox, \A l \in Listener : UNCHANGED <<pc[l], cmd[l]>>
  PROVE  UnreadCommands' = UnreadCommands
  BY DEF UnreadCommands, Unread, InHand

\* What is sent is the same while something else becomes of what was sent.
LEMMA SentFrame ==
  ASSUME Types, NEW c \in Cmd, fate[c] # "unsent", NEW v, v # "unsent",
         fate' = [fate EXCEPT ![c] = v]
  PROVE  SentCommands' = SentCommands
<1>1. \A d \in Cmd : fate'[d] = "unsent" <=> fate[d] = "unsent"
  BY DEF Types, TypeOK, PacketsOK
<1> QED
  BY <1>1 DEF SentCommands

LEMMA SendLedger ==
  ASSUME LedgerInv, UnreadAs', StoredAs', NEW c \in Cmd, Send(c)
  PROVE  Ledger!Arrive(c)
<1> USE DEF LedgerInv, Types, TypeOK, PacketsOK
<1>1. /\ inbox' = Append(inbox, c) /\ inbox \in Seq(Cmd)
      /\ fate' = [fate EXCEPT ![c] = "sent"] /\ fate[c] = "unsent"
      /\ UNCHANGED <<pc, pend, workVars, pending, reply, given>>
  BY DEF Send, lockVars
<1>2. SentCommands' = SentCommands \cup {c} /\ c \notin SentCommands
  BY <1>1 DEF SentCommands
<1>3. Unread' = Unread \cup {c}
  <2>1. /\ Len(inbox) \in Nat /\ Len(inbox') = Len(inbox) + 1
        /\ \A k \in 1 .. Len(inbox) : inbox'[k] = inbox[k]
        /\ inbox'[Len(inbox) + 1] = c
    BY <1>1
  <2>2. ASSUME NEW x \in Unread' PROVE x \in Unread \cup {c}
    <3>1. PICK k \in 1 .. Len(inbox') : inbox'[k] = x
      BY DEF Unread
    <3>2. k \in 1 .. Len(inbox) \/ k = Len(inbox) + 1
      BY <2>1
    <3> QED
      BY <2>1, <3>1, <3>2 DEF Unread
  <2>3. ASSUME NEW k \in 1 .. Len(inbox) PROVE inbox[k] \in Unread'
    <3>1. k \in 1 .. Len(inbox') /\ inbox'[k] = inbox[k]
      BY <2>1
    <3> QED
      BY <3>1 DEF Unread
  <2>4. c \in Unread'
    <3>1. Len(inbox) + 1 \in 1 .. Len(inbox')
      BY <2>1
    <3> QED
      BY <2>1, <3>1 DEF Unread
  <2>5. Unread \subseteq Unread'
    BY <2>3 DEF Unread
  <2> QED
    BY <2>2, <2>4, <2>5
<1>4. UnreadCommands' = UnreadCommands \cup {c}
  BY <1>1, <1>3 DEF UnreadCommands, InHand, workVars
<1>5. StoredCommands' = StoredCommands
  BY <1>1, StoredFrame DEF workVars
<1> QED
  BY <1>1, <1>2, <1>4, <1>5 DEF Ledger!Arrive

LEMMA UnregisterLedger ==
  ASSUME LedgerInv, UnreadAs', StoredAs', NEW t \in Client \cup Daemon,
         UnRegisterCallback(t)
  PROVE  \E lost \in SUBSET UnreadCommands : Ledger!LoseUnread(lost)
<1> USE RolePlaces, Threads DEF LedgerInv, Types, TypeOK, PcOK, PacketsOK
<1>1. /\ UNCHANGED <<pend, workVars, pending, reply, given>>
      /\ pc' \in {[pc EXCEPT ![t] = "destroy"], [pc EXCEPT ![t] = "idle"]}
      /\ pc[t] \in {"unreg", "undo", "cleanup"}
  BY DEF UnRegisterCallback, MayLeave, Goto
<1>2. \/ UNCHANGED <<inbox, fate>>
      \/ /\ inbox' = <<>>
         /\ fate' = [c \in Cmd |-> IF c \in Unread THEN "lost" ELSE fate[c]]
  BY DEF UnRegisterCallback
<1>3. \A c \in Unread : fate[c] # "unsent"
  BY DEF CommandInv, InboxOK, Unread
<1>4. SentCommands' = SentCommands
  BY <1>2, <1>3 DEF SentCommands
<1>5. UnreadCommands' \subseteq UnreadCommands
  <2>1. Unread' \subseteq Unread
    BY <1>2 DEF Unread
  <2>2. InHand(Listener, {"got", "defer", "dispatch"})'
          = InHand(Listener, {"got", "defer", "dispatch"})
    BY <1>1 DEF InHand, workVars
  <2> QED
    BY <2>1, <2>2 DEF UnreadCommands
<1>6. \A d \in Client \cup Drain : pc'[d] = "call" <=> pc[d] = "call"
  BY <1>1
<1>7. StoredCommands' = StoredCommands
  BY <1>1, <1>6, StoredFrame DEF workVars
<1>8. Ledger!LoseUnread(UnreadCommands \ UnreadCommands')
  BY <1>1, <1>4, <1>5, <1>7 DEF Ledger!LoseUnread
<1> QED
  BY <1>8

LEMMA ReceiveLedger ==
  ASSUME LedgerInv, UnreadAs', StoredAs', NEW l \in Listener, Receive(l)
  PROVE  UNCHANGED Ledger!ledgerVars
<1> USE RolePlaces, Threads DEF LedgerInv, Types, TypeOK, PcOK, PacketsOK
<1>1. /\ inbox # <<>> /\ inbox \in Seq(Cmd)
      /\ inbox' = Tail(inbox)
      /\ cmd' = [cmd EXCEPT ![l] = inbox[1]]
      /\ pc' = [pc EXCEPT ![l] = "got"] /\ pc[l] = "recv"
      /\ UNCHANGED <<pend, todo, pending, fate, reply, given>>
  BY DEF Receive, Goto, lockVars
<1>2. cmd'[l] = inbox[1] /\ \A t \in Thread \ {l} : cmd'[t] = cmd[t]
  BY <1>1 DEF WorkOK
<1>3. Unread = Unread' \cup {inbox[1]}
  <2>1. /\ Len(inbox) \in Nat \ {0} /\ Len(inbox') = Len(inbox) - 1
        /\ \A k \in 1 .. Len(inbox') :
              k + 1 \in 1 .. Len(inbox) /\ inbox'[k] = inbox[k + 1]
    BY <1>1
  <2>2. ASSUME NEW x \in Unread' PROVE x \in Unread
    <3>1. PICK k \in 1 .. Len(inbox') : inbox'[k] = x
      BY DEF Unread
    <3>2. k + 1 \in 1 .. Len(inbox) /\ inbox[k + 1] = x
      BY <2>1, <3>1
    <3> QED
      BY <3>2 DEF Unread
  <2>3. ASSUME NEW k \in 1 .. Len(inbox), k # 1
        PROVE  inbox[k] \in Unread'
    <3>1. k - 1 \in 1 .. Len(inbox') /\ inbox'[k - 1] = inbox[k]
      BY <2>1, <2>3
    <3> QED
      BY <3>1 DEF Unread
  <2>4. inbox[1] \in Unread
    <3>1. 1 \in 1 .. Len(inbox)
      BY <2>1
    <3> QED
      BY <3>1 DEF Unread
  <2>5. Unread \subseteq Unread' \cup {inbox[1]}
    <3>1. ASSUME NEW x \in Unread PROVE x \in Unread' \cup {inbox[1]}
      <4>1. PICK k \in 1 .. Len(inbox) : inbox[k] = x
        BY DEF Unread
      <4> QED
        BY <2>3, <4>1
    <3> QED
      BY <3>1
  <2> QED
    BY <2>2, <2>4, <2>5
<1>4. UnreadCommands = Unread
  <2>1. \A k \in Listener : ~ Listening(k)
    BY <1>1 DEF OneListener, Listening
  <2> QED
    BY <2>1 DEF UnreadAs
<1>5. UnreadCommands' = Unread' \cup {inbox[1]}
  BY <1>1, <1>2 DEF UnreadAs, Listening
<1>6. StoredCommands' = StoredCommands
  BY <1>1, <1>2, StoredFrame
<1> QED
  BY <1>1, <1>3, <1>4, <1>5, <1>6 DEF Ledger!ledgerVars, SentCommands

\* The listener is done with a command: it leaves what is unread.
LEMMA ListenerIsDone ==
  ASSUME LedgerInv, UnreadAs', StoredAs', NEW l \in Listener, Listening(l),
         pc' = [pc EXCEPT ![l] = "loop"], UNCHANGED <<cmd, inbox>>
  PROVE  /\ cmd[l] \in UnreadCommands /\ cmd[l] \in Cmd
         /\ UnreadCommands' = UnreadCommands \ {cmd[l]}
<1> USE RolePlaces, Threads DEF LedgerInv, Types, TypeOK, PcOK
<1>1. UnreadCommands = Unread \cup {cmd[l]}
  BY DEF UnreadAs
<1>2. cmd[l] \notin Unread /\ cmd[l] \in Cmd
  BY DEF CommandInv, ListenerHas, HasCommand, Listening, Unread
<1>3. \A k \in Listener : ~ Listening(k)'
  BY DEF OneListener, Listening
<1>4. UnreadCommands' = Unread' /\ Unread' = Unread
  BY <1>3 DEF UnreadAs, Unread
<1> QED
  BY <1>1, <1>2, <1>4

LEMMA FinishLedger ==
  ASSUME LedgerInv, UnreadAs', StoredAs', NEW l \in Listener, pc[l] = "got",
         NEW status \in {"none", "error"}, Finish(l, status)
  PROVE  Ledger!Reject(cmd[l])
<1> USE RolePlaces, Threads DEF LedgerInv, Types, TypeOK, PcOK, PacketsOK
<1>1. /\ UNCHANGED <<pend, workVars, pending, inbox, given>>
      /\ pc' = [pc EXCEPT ![l] = "loop"]
      /\ fate' = [fate EXCEPT ![cmd[l]] = "done"]
      /\ reply' \in {reply, [reply EXCEPT ![cmd[l]] = status]}
  BY DEF Finish, Goto, Answered, lockVars
<1>2. /\ cmd[l] \in UnreadCommands /\ cmd[l] \in Cmd
      /\ UnreadCommands' = UnreadCommands \ {cmd[l]}
  BY <1>1, ListenerIsDone DEF Listening, workVars
<1>3. fate[cmd[l]] # "unsent"
  BY DEF CommandInv, ListenerHas, Listening
<1>4. SentCommands' = SentCommands
  BY <1>1, <1>2, <1>3, SentFrame
<1>5. \A t \in Client \cup Drain : pc'[t] = pc[t]
  BY <1>1
<1>6. StoredCommands' = StoredCommands
  BY <1>1, <1>5, StoredFrame DEF workVars
<1>7. reply' \in {reply, [reply EXCEPT ![cmd[l]] = "error"]}
  <2>1. reply[cmd[l]] = "none"
    BY <1>2 DEF Unanswered
  <2>2. status = "none" => [reply EXCEPT ![cmd[l]] = status] = reply
    BY <1>2, <2>1
  <2> QED
    BY <1>1, <2>2
<1> QED
  BY <1>1, <1>2, <1>4, <1>6, <1>7 DEF Ledger!Reject, Ledger!Decide

LEMMA DeferLedger ==
  ASSUME LedgerInv, UnreadAs', StoredAs', NEW l \in Listener, Defer(l)
  PROVE  Ledger!Postpone(cmd[l])
<1> USE RolePlaces, Threads DEF LedgerInv, Types, TypeOK, PcOK, PacketsOK
<1>1. /\ pc[l] = "defer" /\ pend = NoOne
      /\ pending' = Append(pending, cmd[l]) /\ pending \in Seq(Cmd)
      /\ fate' = [fate EXCEPT ![cmd[l]] = "deferred"]
      /\ reply' \in {reply, [reply EXCEPT ![cmd[l]] = "ok"]}
      /\ pc' = [pc EXCEPT ![l] = "loop"]
      /\ UNCHANGED <<pend, workVars, inbox, given>>
  BY DEF Defer, Postponed, Answered, Goto
<1>2. /\ cmd[l] \in UnreadCommands /\ cmd[l] \in Cmd
      /\ UnreadCommands' = UnreadCommands \ {cmd[l]}
  BY <1>1, ListenerIsDone DEF Listening, workVars
<1>3. fate[cmd[l]] # "unsent"
  BY <1>1 DEF CommandInv, ListenerHas, Listening
<1>4. SentCommands' = SentCommands
  BY <1>1, <1>2, <1>3, SentFrame
<1>5. StoredCommands' = StoredCommands \cup {cmd[l]}
  <2>1. /\ StoredCommands = {pending[k] : k \in 1 .. Len(pending)}
        /\ StoredCommands' = {pending'[k] : k \in 1 .. Len(pending')}
    BY <1>1 DEF StoredAs
  <2>2. /\ Len(pending) \in Nat /\ Len(pending') = Len(pending) + 1
        /\ \A k \in 1 .. Len(pending) : pending'[k] = pending[k]
        /\ pending'[Len(pending) + 1] = cmd[l]
    BY <1>1, <1>2
  <2>3. ASSUME NEW x \in StoredCommands'
        PROVE  x \in StoredCommands \cup {cmd[l]}
    <3>1. PICK k \in 1 .. Len(pending') : pending'[k] = x
      BY <2>1
    <3>2. k \in 1 .. Len(pending) \/ k = Len(pending) + 1
      BY <2>2
    <3> QED
      BY <2>1, <2>2, <3>1, <3>2
  <2>4. ASSUME NEW k \in 1 .. Len(pending) PROVE pending[k] \in StoredCommands'
    <3>1. k \in 1 .. Len(pending') /\ pending'[k] = pending[k]
      BY <2>2
    <3> QED
      BY <2>1, <3>1
  <2>5. cmd[l] \in StoredCommands'
    <3>1. Len(pending) + 1 \in 1 .. Len(pending')
      BY <2>2
    <3> QED
      BY <2>1, <2>2, <3>1
  <2>6. StoredCommands \subseteq StoredCommands'
    BY <2>1, <2>4
  <2> QED
    BY <2>3, <2>5, <2>6
<1> QED
  BY <1>1, <1>2, <1>4, <1>5 DEF Ledger!Postpone, Ledger!Decide

LEMMA DispatchLedger ==
  ASSUME LedgerInv, UnreadAs', StoredAs', NEW l \in Listener, Dispatch(l)
  PROVE  Ledger!Deliver(cmd[l])
<1> USE RolePlaces, Threads DEF LedgerInv, Types, TypeOK, PcOK, PacketsOK
<1>1. PICK r \in pass[l] : HandOver(l, r, cmd[l])
  BY DEF Dispatch
<1>2. /\ pc[l] = "dispatch" /\ cmd[l] \in Cmd /\ given[cmd[l]] = 0
      /\ pass[l] = {r} /\ fate[cmd[l]] # "unsent"
  BY <1>1
  DEF Dispatch, HasCommand, CommandInv, ListenerHas, Listening, OnePass
<1>3. /\ given' = [given EXCEPT ![cmd[l]] = 1]
      /\ fate' = [fate EXCEPT ![cmd[l]] = "reached"]
      /\ pass'[l] = {}
  BY <1>1, <1>2 DEF HandOver, WorkOK
<1>4. /\ pc' = [pc EXCEPT ![l] = "loop"]
      /\ \E status \in {"ok", "error"} :
            reply' \in {reply, [reply EXCEPT ![cmd[l]] = status]}
      /\ UNCHANGED <<pend, todo, cmd, pending, inbox>>
  BY <1>3 DEF Dispatch, Goto, Answered
<1>5. /\ cmd[l] \in UnreadCommands
      /\ UnreadCommands' = UnreadCommands \ {cmd[l]}
  BY <1>2, <1>4, ListenerIsDone DEF Listening
<1>6. SentCommands' = SentCommands
  BY <1>2, <1>3, SentFrame
<1>7. \A t \in Client \cup Drain : pc'[t] = pc[t]
  BY <1>4
<1>8. StoredCommands' = StoredCommands
  BY <1>4, <1>7, StoredFrame
<1> QED
  BY <1>2, <1>3, <1>4, <1>5, <1>6, <1>8
  DEF Ledger!Deliver, Ledger!Decide, Ledger!HandOver

\* A drain begins with all that is stored, and ends with none of it.
LEMMA DrainStartsLedger ==
  ASSUME LedgerInv, UnreadAs', StoredAs', NEW t \in Client \cup Drain,
         DrainStarts(t) \/ DrainEnds(t)
  PROVE  UNCHANGED Ledger!ledgerVars
<1> USE RolePlaces, Threads DEF LedgerInv, Types, TypeOK, PcOK, PacketsOK
<1>1. UNCHANGED <<cmd, inbox, reply, fate, given>>
  BY DEF DrainStarts, DrainEnds, packetVars, workVars
<1>2. \A l \in Listener : pc'[l] = pc[l]
  BY DEF DrainStarts, DrainEnds, Goto
<1>3. UnreadCommands' = UnreadCommands
  BY <1>1, <1>2, UnreadFrame
<1>4. CASE DrainStarts(t)
  <2>1. /\ pend = NoOne /\ pc' = [pc EXCEPT ![t] = "drain"]
        /\ todo' = [todo EXCEPT ![t] = 1 .. Len(pending)]
        /\ pending' = pending
    BY <1>4 DEF DrainStarts, Goto, packetVars
  <2>2. pc'[t] = "drain" /\ todo'[t] = 1 .. Len(pending)
    BY <2>1 DEF WorkOK
  <2>3. StoredCommands = {pending[k] : k \in 1 .. Len(pending)}
    BY <2>1 DEF StoredAs
  <2>4. StoredCommands' = {pending'[k] : k \in todo'[t]}
    BY <2>2 DEF StoredAs
  <2>5. StoredCommands' = StoredCommands
    BY <2>1, <2>2, <2>3, <2>4
  <2> QED
    BY <1>1, <1>3, <2>5 DEF Ledger!ledgerVars, SentCommands
<1>5. CASE DrainEnds(t)
  <2>1. pc[t] = "drain" /\ todo[t] = {} /\ pend' = NoOne /\ pending' = <<>>
    BY <1>5 DEF DrainEnds, PendingCleared
  <2>2. StoredCommands = {pending[k] : k \in todo[t]}
    BY <2>1 DEF StoredAs
  <2>3. StoredCommands' = {pending'[k] : k \in 1 .. Len(pending')}
    BY <2>1 DEF StoredAs
  <2>4. 1 .. Len(pending') = {}
    BY <2>1
  <2>5. StoredCommands = {} /\ StoredCommands' = {}
    BY <2>1, <2>2, <2>3, <2>4
  <2> QED
    BY <1>1, <1>3, <2>5 DEF Ledger!ledgerVars, SentCommands
<1> QED
  BY <1>4, <1>5

LEMMA DrainSkipsLedger ==
  ASSUME LedgerInv, UnreadAs', StoredAs', NEW t \in Client \cup Drain,
         DrainSkips(t)
  PROVE  \E c \in Cmd : Ledger!GiveUpStored(c)
<1> USE RolePlaces, Threads DEF LedgerInv, Types, TypeOK, PcOK, PacketsOK
<1>1. PICK i \in todo[t], v \in {"done", "lost"} :
         /\ todo' = [todo EXCEPT ![t] = @ \ {i}]
         /\ fate' = [fate EXCEPT ![pending[i]] = v]
  BY DEF DrainSkips
<1>2. /\ pc[t] = "drain" /\ todo[t] \subseteq 1 .. Len(pending)
      /\ UNCHANGED <<pc, cmd, pending, inbox, reply, given>>
  BY DEF DrainSkips, DrainOwns
<1>3. /\ todo'[t] = todo[t] \ {i}
      /\ pending[i] \in Cmd /\ fate[pending[i]] # "unsent"
  BY <1>1, <1>2 DEF WorkOK, CommandInv, PendingOK
<1>4. \A k \in todo[t] : pending[k] = pending[i] => k = i
  BY <1>2 DEF CommandInv, PendingOK
<1>5. /\ StoredCommands = {pending[k] : k \in todo[t]}
      /\ StoredCommands' = {pending[k] : k \in todo[t] \ {i}}
  <2>1. StoredCommands = {pending[k] : k \in todo[t]}
    BY <1>2 DEF StoredAs
  <2>2. StoredCommands' = {pending'[k] : k \in todo'[t]}
    BY <1>2 DEF StoredAs
  <2> QED
    BY <1>2, <1>3, <2>1, <2>2
<1>6. pending[i] \in StoredCommands
  BY <1>5
<1>7. StoredCommands' = StoredCommands \ {pending[i]}
  BY <1>4, <1>5
<1>8. SentCommands' = SentCommands
  BY <1>1, <1>3, SentFrame
<1>9. UnreadCommands' = UnreadCommands
  BY <1>2, UnreadFrame
<1>10. Ledger!GiveUpStored(pending[i])
  BY <1>2, <1>6, <1>7, <1>8, <1>9 DEF Ledger!GiveUpStored
<1> QED
  BY <1>3, <1>10

LEMMA DrainFetchesLedger ==
  ASSUME LedgerInv, UnreadAs', StoredAs', NEW t \in Client \cup Drain,
         DrainFetches(t)
  PROVE  UNCHANGED Ledger!ledgerVars
<1> USE RolePlaces, Threads DEF LedgerInv, Types, TypeOK, PcOK, PacketsOK
<1>1. PICK i \in todo[t] :
         /\ todo' = [todo EXCEPT ![t] = @ \ {i}]
         /\ cmd' = [cmd EXCEPT ![t] = pending[i]]
  BY DEF DrainFetches
<1>2. /\ pc[t] = "drain" /\ pc' = [pc EXCEPT ![t] = "call"]
      /\ UNCHANGED <<pending, inbox, reply, fate, given>>
  BY DEF DrainFetches, Goto, packetVars
<1>3. /\ todo'[t] = todo[t] \ {i} /\ cmd'[t] = pending[i] /\ pc'[t] = "call"
      /\ \A l \in Listener : UNCHANGED <<pc[l], cmd[l]>>
  BY <1>1, <1>2 DEF WorkOK
<1>4. /\ StoredCommands = {pending[k] : k \in todo[t]}
      /\ StoredCommands' = {pending[k] : k \in todo[t] \ {i}} \cup {pending[i]}
  <2>1. StoredCommands = {pending[k] : k \in todo[t]}
    BY <1>2 DEF StoredAs
  <2>2. StoredCommands' = {pending'[k] : k \in todo'[t]} \cup {cmd'[t]}
    BY <1>3 DEF StoredAs
  <2> QED
    BY <1>2, <1>3, <2>1, <2>2
<1>5. StoredCommands' = StoredCommands
  BY <1>4
<1>6. UnreadCommands' = UnreadCommands
  BY <1>2, <1>3, UnreadFrame
<1> QED
  BY <1>2, <1>5, <1>6 DEF Ledger!ledgerVars, SentCommands

LEMMA DrainCallsLedger ==
  ASSUME LedgerInv, UnreadAs', StoredAs', NEW t \in Client \cup Drain,
         DrainCalls(t)
  PROVE  \E c \in Cmd : Ledger!DeliverStored(c)
<1> USE RolePlaces, Threads DEF LedgerInv, Types, TypeOK, PcOK, PacketsOK
<1>1. PICK r \in pass[t] : HandOver(t, r, cmd[t])
  BY DEF DrainCalls
<1>2. /\ pc[t] = "call" /\ cmd[t] \in Cmd /\ given[cmd[t]] = 0
      /\ pass[t] = {r} /\ todo[t] \subseteq 1 .. Len(pending)
  BY <1>1
  DEF DrainCalls, HasCommand, CommandInv, DrainHas, OnePass, DrainOwns
<1>3. PICK k \in (1 .. Len(pending)) \ todo[t] : pending[k] = cmd[t]
  BY <1>2 DEF CommandInv, DrainHas
<1>4. /\ given' = [given EXCEPT ![cmd[t]] = 1]
      /\ fate' = [fate EXCEPT ![cmd[t]] = "reached"]
      /\ pass'[t] = {}
  BY <1>1, <1>2 DEF HandOver, WorkOK
<1>5. /\ pc' = [pc EXCEPT ![t] = "drain"]
      /\ UNCHANGED <<todo, cmd, pending, inbox, reply>>
  BY <1>4 DEF DrainCalls, Goto
<1>6. ASSUME NEW m \in todo[t] PROVE pending[m] # cmd[t]
  <2>1. m \in 1 .. Len(pending) /\ m # k
    BY <1>2, <1>3
  <2>2. pending[m] = pending[k] => m = k
    BY <1>3, <2>1 DEF CommandInv, PendingOK
  <2> QED
    BY <1>3, <2>1, <2>2
<1>7. /\ StoredCommands = {pending[m] : m \in todo[t]} \cup {cmd[t]}
      /\ StoredCommands' = {pending[m] : m \in todo[t]}
  <2>1. StoredCommands = {pending[m] : m \in todo[t]} \cup {cmd[t]}
    BY <1>2 DEF StoredAs
  <2>2. StoredCommands' = {pending'[m] : m \in todo'[t]}
    BY <1>2, <1>5 DEF StoredAs
  <2> QED
    BY <1>5, <2>1, <2>2
<1>8. cmd[t] \in StoredCommands /\ StoredCommands' = StoredCommands \ {cmd[t]}
  BY <1>6, <1>7
<1>9. fate[cmd[t]] # "unsent"
  BY <1>3 DEF CommandInv, PendingOK
<1>10. SentCommands' = SentCommands
  BY <1>2, <1>4, <1>9, SentFrame
<1>11. \A l \in Listener : UNCHANGED <<pc[l], cmd[l]>>
  BY <1>5
<1>12. UnreadCommands' = UnreadCommands
  BY <1>5, <1>11, UnreadFrame
<1>13. Ledger!DeliverStored(cmd[t])
  BY <1>2, <1>4, <1>5, <1>8, <1>10, <1>12
  DEF Ledger!DeliverStored, Ledger!HandOver
<1> QED
  BY <1>2, <1>13

LEMMA NextLedger ==
  LedgerInv /\ UnreadAs' /\ StoredAs' /\ [Next]_vars
    => [Ledger!Next]_(Ledger!ledgerVars)
<1> SUFFICES ASSUME LedgerInv, UnreadAs', StoredAs', [Next]_vars
             PROVE  Ledger!Next \/ UNCHANGED Ledger!ledgerVars
  OBVIOUS
<1> USE RolePlaces, Threads DEF LedgerInv, Types, TypeOK, PcOK
<1>1. ASSUME NEW t \in Client \cup Daemon, Register(t)
      PROVE  Ledger!Next \/ UNCHANGED Ledger!ledgerVars
  <2>1. CASE UnRegisterCallback(t)
    BY <2>1, UnregisterLedger DEF Ledger!Next
  <2>2. CASE RegisterMore(t)
    BY <2>2, LedgerFrame
    DEF RegisterMore, Goto, Listening, packetVars, workVars, lockVars
  <2>3. CASE RegisterNoLib(t) \/ RegisterBreaks(t)
    BY <2>3, LedgerFrame
    DEF RegisterNoLib, RegisterBreaks, Goto, Listening, packetVars, workVars
  <2>4. CASE RegisterFirst(t)
    BY <2>4, LedgerFrame DEF RegisterFirst, Listening, packetVars, workVars
  <2> QED
    BY <1>1, <2>1, <2>2, <2>3, <2>4 DEF Register
<1>2. CASE Decision
  <2>1. ASSUME NEW c \in Client, CallCreate(c) \/ CallDestroy(c)
        PROVE  UNCHANGED Ledger!ledgerVars
    BY <2>1, LedgerFrame
    DEF CallCreate, CallDestroy, Goto, Listening, packetVars, workVars, lockVars
  <2>2. ASSUME NEW d \in Daemon, CallRegister(d) \/ CallUnregister(d)
        PROVE  UNCHANGED Ledger!ledgerVars
    BY <2>2, LedgerFrame
    DEF CallRegister, CallUnregister, Goto, Listening, packetVars, workVars,
        lockVars
  <2>3. ASSUME NEW c \in Cmd, Send(c)
        PROVE  Ledger!Next
    BY <2>3, SendLedger DEF Ledger!Next
  <2> QED
    BY <1>2, <2>1, <2>2, <2>3 DEF Decision
<1>3. ASSUME NEW c \in Client, ClientStep(c)
      PROVE  UNCHANGED Ledger!ledgerVars
  BY <1>3, LedgerFrame
  DEF ClientStep, NewInstance, ReturnInstance, InitAgain, InitFirst,
      CreateCoreSucceeds, CreateCoreFails, DeinitShared, DeinitLast,
      DestroyCoreSucceeds, DestroyCoreFails, Goto, Listening, packetVars,
      workVars, lockVars
<1>4. ASSUME NEW l \in Listener, ListenerStep(l)
      PROVE  Ledger!Next \/ UNCHANGED Ledger!ledgerVars
  <2>1. CASE \/ ListenerStarts(l) \/ TestLoop(l) \/ PollFindsPacket(l)
             \/ PollFindsExit(l) \/ PollFindsError(l) \/ ReceiveFails(l)
             \/ ReceiveNothing(l)
    BY <2>1, LedgerFrame
    DEF ListenerStarts, TestLoop, PollFindsPacket, PollFindsExit,
        PollFindsError, ReceiveFails,
        ReceiveNothing, Goto, Listening, packetVars, workVars,
        lockVars
  <2>2. CASE HandlePostpones(l)
    BY <2>2, LedgerFrame
    DEF HandlePostpones, Goto, Listening, packetVars, workVars
  <2>3. CASE HandleAccepts(l)
    BY <2>3, LedgerFrame DEF HandleAccepts, Goto, Listening, packetVars
  <2>4. CASE \/ HandleOther(l) \/ HandleBadPacket(l) \/ HandleByService(l)
             \/ HandleRejects(l)
    <3>1. /\ pc[l] = "got"
          /\ \E status \in {"none", "error"} : Finish(l, status)
      BY <2>4
      DEF HandleOther, HandleBadPacket, HandleByService, HandleRejects
    <3>2. cmd[l] \in Cmd /\ Ledger!Reject(cmd[l])
      BY <3>1, FinishLedger DEF HasCommand
    <3> QED
      BY <3>2 DEF Ledger!Next
  <2>5. CASE Defer(l)
    <3>1. cmd[l] \in Cmd /\ Ledger!Postpone(cmd[l])
      BY <2>5, DeferLedger DEF Defer, HasCommand
    <3> QED
      BY <3>1 DEF Ledger!Next
  <2>6. CASE Dispatch(l)
    <3>1. cmd[l] \in Cmd /\ Ledger!Deliver(cmd[l])
      BY <2>6, DispatchLedger DEF Dispatch, HasCommand
    <3> QED
      BY <3>1 DEF Ledger!Next
  <2> QED
    BY <1>4, <2>1, <2>2, <2>3, <2>4, <2>5, <2>6, ReceiveLedger
    DEF ListenerStep, Handle
<1>5. ASSUME NEW t \in Client \cup Drain, HandlePendingCommands(t)
      PROVE  Ledger!Next \/ UNCHANGED Ledger!ledgerVars
  <2>1. CASE DrainSkips(t)
    BY <2>1, DrainSkipsLedger DEF Ledger!Next
  <2>2. CASE DrainCalls(t)
    BY <2>2, DrainCallsLedger DEF Ledger!Next
  <2> QED
    BY <1>5, <2>1, <2>2, DrainStartsLedger, DrainFetchesLedger
    DEF HandlePendingCommands
<1>6. CASE UNCHANGED vars
  BY <1>6, LedgerFrame DEF vars, packetVars, workVars, lockVars, Listening
<1> QED
  BY <1>1, <1>2, <1>3, <1>4, <1>5, <1>6 DEF Next

LEMMA InitLedger == Init => Ledger!Init /\ Unanswered
<1> SUFFICES ASSUME Init PROVE Ledger!Init /\ Unanswered
  OBVIOUS
<1> USE RolePlaces, Threads
<1>1. /\ SentCommands = {}
      /\ InHand(Listener, {"got", "defer", "dispatch"}) = {}
      /\ InHand(Client \cup Drain, {"call"}) = {}
  BY DEF Init, SentCommands, InHand
<1>2. Unread = {} /\ Waiting = {}
  <2>1. 1 .. Len(inbox) = {} /\ 1 .. Len(pending) = {}
    BY DEF Init
  <2> QED
    BY <2>1 DEF Unread, Waiting
<1>3. UnreadCommands = {} /\ StoredCommands = {}
  BY <1>1, <1>2 DEF UnreadCommands, StoredCommands
<1> QED
  BY <1>1, <1>3 DEF Init, Ledger!Init, Unanswered

\* Only a decision answers, and what is decided about is no longer unread.
LEMMA NextUnanswered ==
  Types /\ Unanswered /\ [Ledger!Next]_(Ledger!ledgerVars) => Unanswered'
<1> SUFFICES ASSUME Types, Unanswered, [Ledger!Next]_(Ledger!ledgerVars)
             PROVE  Unanswered'
  OBVIOUS
<1>1. reply \in [Cmd -> {"none", "ok", "error"}]
  BY DEF Types, TypeOK, PacketsOK
<1>2. ASSUME NEW c \in Cmd, NEW status, Ledger!Decide(c, status)
      PROVE  Unanswered'
  <2>1. /\ c \in SentCommands /\ SentCommands' = SentCommands
        /\ UnreadCommands' = UnreadCommands \ {c}
        /\ \A d \in Cmd \ {c} : reply'[d] = reply[d]
    BY <1>1, <1>2 DEF Ledger!Decide, Unanswered
  <2> QED
    BY <2>1 DEF Unanswered
<1>3. ASSUME NEW c \in Cmd, Ledger!Arrive(c)
      PROVE  Unanswered'
  BY <1>3 DEF Ledger!Arrive, Unanswered
<1>4. ASSUME NEW c \in Cmd, Ledger!Deliver(c) \/ Ledger!Postpone(c) \/ Ledger!Reject(c)
      PROVE  Unanswered'
  BY <1>2, <1>4 DEF Ledger!Deliver, Ledger!Postpone, Ledger!Reject
<1>5. ASSUME NEW c \in Cmd, Ledger!DeliverStored(c) \/ Ledger!GiveUpStored(c)
      PROVE  Unanswered'
  BY <1>5 DEF Ledger!DeliverStored, Ledger!GiveUpStored, Unanswered
<1>6. ASSUME NEW lost, Ledger!LoseUnread(lost)
      PROVE  Unanswered'
  BY <1>6 DEF Ledger!LoseUnread, Unanswered
<1>7. CASE UNCHANGED Ledger!ledgerVars
  BY <1>7 DEF Ledger!ledgerVars, Unanswered
<1> QED
  BY <1>3, <1>4, <1>5, <1>6, <1>7 DEF Ledger!Next

\* The service implements CommandLedger while sessions are disciplined: every
\* command is decided about once, by the listener; it is answered then or
\* never; one that was put off is handed over or given up once, by a drain;
\* and none is handed over twice.  Locks, threads, sockets and drains
\* disappear in this view: a command is unread in the socket or with the
\* listener, and stored in pending_commands_ or with the drain.
THEOREM CommandsAreLedgered ==
  ASSUME Disciplined
  PROVE  Spec => CommandsLedgered
<1>1. Init => Types /\ SessionInv /\ CommandInv /\ Unanswered /\ Ledger!Init
  BY InitTypes, InitSessionInv, InitCommand, InitLedger
<1>2. Types /\ SessionInv /\ CommandInv /\ OneListener /\ [Next]_vars
        => Types' /\ SessionInv' /\ CommandInv'
  BY NextTypes, NextSession, NextCommand, Disciplined
<1>3. (OneListener => UnreadAs) /\ (Types => StoredAs)
  BY UnreadIs, StoredIs
<1>4. Types /\ OneListener /\ SessionInv /\ CommandInv /\ UnreadAs /\ StoredAs
        /\ Unanswered /\ UnreadAs' /\ StoredAs' /\ [Next]_vars
        => [Ledger!Next]_(Ledger!ledgerVars) /\ Unanswered'
  BY NextLedger, NextUnanswered DEF LedgerInv
<1> QED
  BY <1>1, <1>2, <1>3, <1>4, SingleListener, PTL
  DEF Spec, CommandsLedgered, Ledger!Spec

=============================================================================
