---------------------------- MODULE CommandLedger ----------------------------
(***************************************************************************)
(* What the command service promises of the commands sent to it.  Each is  *)
(* decided about once: handed over, postponed or rejected, and answered    *)
(* then or never.  A postponed one is handed over or given up later; one   *)
(* nobody has read may be lost.  Nothing is ever handed over twice.        *)
(***************************************************************************)
EXTENDS Naturals

CONSTANT Command

VARIABLES
    sent,      \* the commands that arrived
    unread,    \* those nobody has decided about
    stored,    \* those postponed, and not yet dealt with
    given,     \* how often each was handed over
    answer     \* the answer to each

ledgerVars == <<sent, unread, stored, given, answer>>

Init ==
    /\ sent = {} /\ unread = {} /\ stored = {}
    /\ given = [c \in Command |-> 0]
    /\ answer = [c \in Command |-> "none"]

Arrive(c) ==
    /\ c \notin sent
    /\ sent' = sent \cup {c} /\ unread' = unread \cup {c}
    /\ UNCHANGED <<stored, given, answer>>

\* A decision about a command is when it is answered, if it ever is.
Decide(c, status) ==
    /\ c \in unread
    /\ unread' = unread \ {c}
    /\ answer' \in {answer, [answer EXCEPT ![c] = status]}
    /\ UNCHANGED sent

HandOver(c) ==
    /\ given[c] = 0
    /\ given' = [given EXCEPT ![c] = 1]

Deliver(c) ==
    /\ \E status \in {"ok", "error"} : Decide(c, status)
    /\ HandOver(c)
    /\ UNCHANGED stored

Postpone(c) ==
    /\ Decide(c, "ok")
    /\ stored' = stored \cup {c}
    /\ UNCHANGED given

Reject(c) ==
    /\ Decide(c, "error")
    /\ UNCHANGED <<stored, given>>

DeliverStored(c) ==
    /\ c \in stored /\ stored' = stored \ {c}
    /\ HandOver(c)
    /\ UNCHANGED <<sent, unread, answer>>

GiveUpStored(c) ==
    /\ c \in stored /\ stored' = stored \ {c}
    /\ UNCHANGED <<sent, unread, given, answer>>

LoseUnread(lost) ==
    /\ unread' = unread \ lost
    /\ UNCHANGED <<sent, stored, given, answer>>

Next ==
    \/ \E c \in Command :
          \/ Arrive(c) \/ Deliver(c) \/ Postpone(c) \/ Reject(c)
          \/ DeliverStored(c) \/ GiveUpStored(c)
    \/ \E lost \in SUBSET unread : LoseUnread(lost)

Spec == Init /\ [][Next]_ledgerVars
=============================================================================
