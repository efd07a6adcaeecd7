------------------------ MODULE SDMCompDisplaysProofs ------------------------
(***************************************************************************)
(* What holds of the displays for every number of clients, of display      *)
(* types, of brightness levels and of configurations.                      *)
(***************************************************************************)
EXTENDS SDMCompDisplays, FiniteSetTheorems, TLAPS

\* No DestroyDisplay fails in the core.
DestroySucceeds == Faults \cap {"flush", "destroy"} = {}

\* What the counting depends on.
CountOK ==
    /\ holds \in [DispType -> SUBSET Client]
    /\ refs \in [DispType -> Nat]
    /\ disp \in [DispType -> {"none", "ready", "stripped"}]

IInv == CountOK /\ RefsAreHolders

\* The steps that are no CreateDisplay and no DestroyDisplay.
EventOrCall ==
    \/ \E c \in Client, t \in DispType, v \in Level : CallBrightness(c, t, v)
    \/ \E t \in DispType, v \in Level :
          KeepBrightness(t, v) \/ SetBrightness(t, v)
    \/ \E t \in DispType, v \in Config : KeepConfig(t, v)
    \/ \E a \in Caller : BrightnessStep(a)

\* They leave the displays and their holders alone.
LEMMA EventsLeaveDisplays ==
  EventOrCall \/ UNCHANGED vars => UNCHANGED displayVars
  BY
  DEF EventOrCall, CallBrightness, KeepBrightness, SetBrightness, KeepConfig,
      BrightnessStep, CheckLevel, TestMinimum, StoreMinimum, ShowLevel,
      SetMinimum, CompareCached, vars, displayVars

\* A set of clients grows by one client, or loses one, and is counted so.
LEMMA HoldersCounted ==
  ASSUME NEW S \in SUBSET Client
  PROVE  /\ Cardinality(S) \in Nat
         /\ Cardinality(S) = 0 <=> S = {}
         /\ \A c \in Client \ S : Cardinality(S \cup {c}) = Cardinality(S) + 1
         /\ \A c \in S : Cardinality(S \ {c}) = Cardinality(S) - 1
<1>1. IsFiniteSet(S)
  BY DisplayConstants, FS_Subset
<1> QED
  BY <1>1, FS_CardinalityType, FS_EmptySet, FS_AddElement, FS_RemoveElement

\* One more holder and one more reference for t, whose display is then there.
LEMMA OneMore ==
  ASSUME IInv, NEW c \in Client, NEW t \in DispType, c \notin holds[t],
         Gains(c, t), refs' = [refs EXCEPT ![t] = @ + 1],
         disp' = [disp EXCEPT ![t] = disp'[t]],
         disp'[t] \in {"ready", "stripped"}
  PROVE  IInv'
<1>1. CountOK'
  BY DEF IInv, CountOK, Gains
<1>2. c \in Client \ holds[t] /\ holds[t] \in SUBSET Client
  BY DEF IInv, CountOK
<1>3. RefsAreHolders'
  BY <1>2, HoldersCounted DEF IInv, CountOK, RefsAreHolders, Gains
<1> QED
  BY <1>1, <1>3 DEF IInv

\* One holder and one reference less for t, whose display goes with the last.
LEMMA OneLessHolder ==
  ASSUME IInv, NEW c \in Client, NEW t \in DispType, c \in holds[t],
         Loses(c, t), refs' = [refs EXCEPT ![t] = @ - 1],
         \/ refs[t] = 1 /\ disp' = [disp EXCEPT ![t] = "none"]
         \/ refs[t] # 1 /\ disp' = disp
  PROVE  IInv'
<1>1. holds[t] \in SUBSET Client /\ refs[t] = Cardinality(holds[t])
  BY DEF IInv, CountOK, RefsAreHolders
<1>2. refs[t] \in Nat \ {0}
  BY <1>1, HoldersCounted
<1>3. CountOK'
  BY <1>2 DEF IInv, CountOK, Loses
<1>4. RefsAreHolders'
  BY <1>1, <1>2, HoldersCounted DEF IInv, CountOK, RefsAreHolders, Loses
<1> QED
  BY <1>3, <1>4 DEF IInv

LEMMA InitIInv == Init => IInv
  BY HoldersCounted DEF Init, IInv, CountOK, RefsAreHolders

LEMMA NextIInv == DestroySucceeds /\ IInv /\ [Next]_vars => IInv'
<1> SUFFICES ASSUME DestroySucceeds, IInv, [Next]_vars PROVE IInv'
  OBVIOUS
<1>1. ASSUME NEW c \in Client, NEW t \in DispType, CreateShared(c, t)
      PROVE  IInv'
  BY <1>1, OneMore DEF CreateShared, IInv, CountOK
<1>2. ASSUME NEW c \in Client, NEW t \in DispType, CreateNew(c, t)
      PROVE  IInv'
  BY <1>2, OneMore DEF CreateNew, IInv, CountOK
<1>3. ASSUME NEW c \in Client, NEW t \in DispType, DestroyShared(c, t)
      PROVE  IInv'
  <2>1. refs[t] # 1 /\ UNCHANGED disp
    BY <1>3 DEF DestroyShared, IInv, CountOK
  <2> QED
    BY <1>3, <2>1, OneLessHolder DEF DestroyShared
<1>4. ASSUME NEW c \in Client, NEW t \in DispType, DestroyLast(c, t)
      PROVE  IInv'
  <2>1. refs' = [refs EXCEPT ![t] = @ - 1]
    BY <1>4 DEF DestroyLast, IInv, CountOK
  <2> QED
    BY <1>4, <2>1, OneLessHolder DEF DestroyLast
<1>5. ASSUME NEW c \in Client, NEW t \in DispType, DestroyFails(c, t)
      PROVE  IInv'
  BY <1>5 DEF DestroyFails, DestroySucceeds
<1>6. ASSUME NEW c \in Client, NEW t \in DispType, DestroyAgain(c, t)
      PROVE  IInv'
  <2>1. refs[t] = 0 /\ c \in holds[t]
    BY <1>6 DEF DestroyAgain
  <2>2. refs[t] = Cardinality(holds[t]) /\ holds[t] \in SUBSET Client
    BY DEF IInv, CountOK, RefsAreHolders
  <2> QED
    BY <2>1, <2>2, HoldersCounted
<1>7. CASE UNCHANGED displayVars
  BY <1>7 DEF displayVars, IInv, CountOK, RefsAreHolders
<1>8. CASE EventOrCall \/ UNCHANGED vars
  BY <1>7, <1>8, EventsLeaveDisplays
<1> QED
  BY <1>1, <1>2, <1>3, <1>4, <1>5, <1>6, <1>8 DEF Next, EventOrCall

\* While the core destroys what it is told to, a display is there exactly
\* while a client holds it, and disp_ref_count_ counts those clients.
THEOREM ReferencesCounted ==
  ASSUME DestroySucceeds
  PROVE  Spec => []RefsAreHolders
<1>1. Init => IInv
  BY InitIInv
<1>2. IInv /\ [Next]_vars => IInv'
  BY NextIInv, DestroySucceeds
<1>3. IInv => RefsAreHolders
  BY DEF IInv
<1> QED
  BY <1>1, <1>2, <1>3, PTL DEF Spec

\* One step of the displays is one of SharedResources, or none: making or
\* sharing a display is an Acquire, destroying or leaving one a Release.
LEMMA StepIsShared ==
  DestroySucceeds /\ IInv /\ [Next]_vars => [Shared!Next]_(Shared!resourceVars)
<1> SUFFICES ASSUME DestroySucceeds, IInv, [Next]_vars
             PROVE  [Shared!Next]_(Shared!resourceVars)
  OBVIOUS
<1>1. ASSUME NEW c \in Client, NEW t \in DispType,
             CreateShared(c, t) \/ CreateNew(c, t)
      PROVE  Shared!Acquire(c, t)
  BY <1>1
  DEF CreateShared, CreateNew, Gains, IInv, CountOK, Shared!Acquire
<1>2. ASSUME NEW c \in Client, NEW t \in DispType, c \in holds[t],
             Loses(c, t), DestroyShared(c, t) \/ DestroyLast(c, t)
      PROVE  Shared!Release(c, t)
  <2>1. holds[t] \in SUBSET Client /\ refs[t] = Cardinality(holds[t])
    BY DEF IInv, CountOK, RefsAreHolders
  <2>2. Cardinality(holds[t] \ {c}) = refs[t] - 1
    BY <1>2, <2>1, HoldersCounted
  <2>3. refs[t] = 1 <=> holds[t] = {c}
    <3>1. holds[t] \ {c} \in SUBSET Client
      BY <2>1
    <3>2. Cardinality(holds[t] \ {c}) = 0 <=> holds[t] \ {c} = {}
      BY <3>1, HoldersCounted
    <3>3. refs[t] \in Nat
      BY <2>1, HoldersCounted
    <3> QED
      BY <1>2, <2>2, <3>2, <3>3
  <2>4. disp[t] # "none"
    BY <1>2, <2>1, HoldersCounted DEF IInv, CountOK, RefsAreHolders
  <2>5. CASE DestroyShared(c, t)
    BY <1>2, <2>3, <2>4, <2>5
    DEF DestroyShared, Loses, IInv, CountOK, Shared!Release
  <2>6. CASE DestroyLast(c, t)
    BY <1>2, <2>3, <2>4, <2>6
    DEF DestroyLast, Loses, IInv, CountOK, Shared!Release
  <2> QED
    BY <1>2, <2>5, <2>6
<1>3. ASSUME NEW c \in Client, NEW t \in DispType, DestroyAgain(c, t)
      PROVE  FALSE
  <2>1. refs[t] = 0 /\ c \in holds[t]
    BY <1>3 DEF DestroyAgain
  <2>2. refs[t] = Cardinality(holds[t]) /\ holds[t] \in SUBSET Client
    BY DEF IInv, CountOK, RefsAreHolders
  <2> QED
    BY <2>1, <2>2, HoldersCounted
<1>4. CASE UNCHANGED displayVars
  BY <1>4 DEF displayVars, Shared!resourceVars
<1>5. CASE EventOrCall \/ UNCHANGED vars
  BY <1>4, <1>5, EventsLeaveDisplays
<1>6. ASSUME NEW c \in Client, NEW t \in DispType, DestroyFails(c, t)
      PROVE  FALSE
  BY <1>6 DEF DestroyFails, DestroySucceeds
<1>7. CASE \E c \in Client, t \in DispType :
              CreateShared(c, t) \/ CreateNew(c, t)
  BY <1>1, <1>7 DEF Shared!Next
<1>8. CASE \E c \in Client, t \in DispType :
               DestroyShared(c, t) \/ DestroyLast(c, t)
  BY <1>2, <1>8 DEF Shared!Next, DestroyShared, DestroyLast
<1> QED
  BY <1>3, <1>5, <1>6, <1>7, <1>8 DEF Next, EventOrCall

\* While the core destroys what it is told to, the displays are shared as
\* SharedResources says.
THEOREM DisplaysAreShared ==
  ASSUME DestroySucceeds
  PROVE  Spec => SharedByClients
<1>1. Init => Shared!Init
  BY DEF Init, Shared!Init
<1>2. Init => IInv
  BY InitIInv
<1>3. IInv /\ [Next]_vars => IInv'
  BY NextIInv, DestroySucceeds
<1>4. IInv /\ [Next]_vars => [Shared!Next]_(Shared!resourceVars)
  BY StepIsShared, DestroySucceeds
<1> QED
  BY <1>1, <1>2, <1>3, <1>4, PTL DEF Spec, SharedByClients, Shared!Spec

---------------------------------------------------------------------------
(* Brightness calls                                                        *)

\* A client calls through a handle it keeps meanwhile, and what OnEvent calls
\* is there: neither could be said without the other invariants.
CallsOK ==
    /\ call \in [Caller ->
                    [at : Place, type : DispType \cup {NoType}, level : Level]]
    /\ \A a \in Caller : ~ Idle(a) => call[a].type \in DispType
    /\ \A c \in Client : ~ Idle(c) => c \in holds[call[c].type]
    /\ ~ Idle(Service) => disp[call[Service].type] # "none"

\* A display that is held is there.
LEMMA HeldIsThere ==
  ASSUME IInv, NEW t \in DispType, NEW c \in holds[t]
  PROVE  disp[t] # "none"
<1>1. holds[t] \in SUBSET Client /\ refs[t] = Cardinality(holds[t])
  BY DEF IInv, CountOK, RefsAreHolders
<1>2. refs[t] \in Nat /\ refs[t] # 0
  BY <1>1, HoldersCounted
<1> QED
  BY <1>2 DEF IInv, RefsAreHolders

LEMMA InitCallsOK == Init => CallsOK
  BY DisplayConstants
  DEF Init, CallsOK, NoCall, Caller, Place, Level, Idle

\* CreateDisplay and DestroyDisplay by client c: no call of its own is under
\* way, and with recursive_mutex_ taken no OnEvent is.
LEMMA LockedStepCallsOK ==
  ASSUME CallsOK, CountOK, NEW c \in Client, NEW t \in DispType, MayLock(c),
         UNCHANGED call, Gains(c, t) \/ Loses(c, t) \/ UNCHANGED holds
  PROVE  CallsOK'
<1>1. \A a \in Client : ~ Idle(a) => a # c
  BY DEF MayLock
<1> QED
  BY <1>1, DisplayConstants
  DEF CallsOK, CountOK, MayLock, Idle, Gains, Loses, Caller

\* A step of a brightness call stays with its display, or ends the call.
LEMMA BrightnessStepCallsOK ==
  ASSUME CallsOK, NEW a \in Caller, BrightnessStep(a)
  PROVE  CallsOK'
<1>1. UNCHANGED displayVars
  BY EventsLeaveDisplays DEF EventOrCall
<1>2. ~ Idle(a)
  BY DEF BrightnessStep, CheckLevel, TestMinimum, StoreMinimum, ShowLevel,
     SetMinimum, CompareCached, Idle
<1>3. \/ Returns(a)
      \/ \E place \in Place \ {"idle"} : Goes(a, place)
  BY DEF BrightnessStep, CheckLevel, TestMinimum, StoreMinimum, ShowLevel,
     SetMinimum, CompareCached, Place
<1>4. CASE Returns(a)
  BY <1>1, <1>4, DisplayConstants
  DEF CallsOK, Returns, NoCall, Caller, Place, Level, Idle, displayVars
<1>5. ASSUME NEW place \in Place \ {"idle"}, Goes(a, place)
      PROVE  CallsOK'
  BY <1>1, <1>2, <1>5, DisplayConstants
  DEF CallsOK, Goes, Caller, Place, Idle, displayVars
<1> QED
  BY <1>3, <1>4, <1>5

LEMMA NextCallsOK ==
  DestroySucceeds /\ IInv /\ CallsOK /\ [Next]_vars => CallsOK'
<1> SUFFICES ASSUME DestroySucceeds, IInv, CallsOK, [Next]_vars
             PROVE  CallsOK'
  OBVIOUS
<1>1. ASSUME NEW c \in Client, NEW t \in DispType,
             \/ CreateShared(c, t) \/ CreateNew(c, t)
             \/ DestroyShared(c, t) \/ DestroyLast(c, t)
             \/ DestroyFails(c, t) \/ DestroyAgain(c, t)
      PROVE  CallsOK'
  BY <1>1, LockedStepCallsOK
  DEF CreateShared, CreateNew, DestroyShared, DestroyLast, DestroyFails,
      DestroyAgain, IInv
<1>2. ASSUME NEW c \in Client, NEW t \in DispType, NEW v \in Level,
             CallBrightness(c, t, v)
      PROVE  CallsOK'
  BY <1>2, DisplayConstants
  DEF CallBrightness, CallsOK, Enters, Caller, Place, Idle, displayVars
<1>3. ASSUME NEW t \in DispType, NEW v \in Level, SetBrightness(t, v)
      PROVE  CallsOK'
  BY <1>3, DisplayConstants
  DEF SetBrightness, CallsOK, Enters, Caller, Place, Idle, displayVars
<1>4. CASE \E t \in DispType : \/ \E v \in Level : KeepBrightness(t, v)
                               \/ \E v \in Config : KeepConfig(t, v)
  BY <1>4 DEF KeepBrightness, KeepConfig, CallsOK, Idle, displayVars
<1>5. ASSUME NEW a \in Caller, BrightnessStep(a)
      PROVE  CallsOK'
  BY <1>5, BrightnessStepCallsOK
<1>6. CASE UNCHANGED vars
  BY <1>6 DEF vars, CallsOK, Idle, displayVars
<1> QED
  BY <1>1, <1>2, <1>3, <1>4, <1>5, <1>6 DEF Next

\* While the core destroys what it is told to, every brightness call works on
\* a display that is there, although clients make it with no lock.
THEOREM CallsAreLive ==
  ASSUME DestroySucceeds
  PROVE  Spec => []CallsOnLiveDisplay
<1>1. Init => IInv /\ CallsOK
  BY InitIInv, InitCallsOK
<1>2. IInv /\ CallsOK /\ [Next]_vars => IInv' /\ CallsOK'
  BY NextIInv, NextCallsOK, DestroySucceeds
<1>3. IInv /\ CallsOK => CallsOnLiveDisplay
  BY HeldIsThere DEF CallsOK, CallsOnLiveDisplay, Caller
<1> QED
  BY <1>1, <1>2, <1>3, PTL DEF Spec

---------------------------------------------------------------------------
(* Types and kept events, with every call of the core able to fail         *)

\* A call that is under way has a display type: types alone are not inductive.
CallsTyped == \A a \in Caller : ~ Idle(a) => call[a].type \in DispType

TypeInv == TypeOK /\ CallsTyped

LEMMA InitTypeInv == Init => TypeInv
<1> SUFFICES ASSUME Init PROVE TypeInv
  OBVIOUS
<1>1. NoCall \in [at : Place, type : DispType \cup {NoType}, level : Level]
  BY DisplayConstants DEF NoCall, Place, Level
<1>2. 0 \in Level
  BY DisplayConstants DEF Level
<1>3. TypeOK
  BY <1>1, <1>2 DEF Init, TypeOK, Event
<1>4. CallsTyped
  BY DEF Init, CallsTyped, Idle, NoCall
<1> QED
  BY <1>3, <1>4 DEF TypeInv

\* The panel side of a new display.
LEMMA NewDisplayTyped ==
  ASSUME TypeOK, NEW t \in DispType, PendingBrightness(t), PendingConfig(t)
  PROVE  /\ floor' \in [DispType -> Level]
         /\ panel' \in [DispType -> Level \cup {NoValue}]
         /\ active' \in [DispType -> PanelConfig]
         /\ info' \in [DispType -> PanelConfig \cup {NoValue}]
<1>1. 0 \in Level
  BY DisplayConstants DEF Level
<1>2. /\ floor' \in [DispType -> Level]
      /\ panel' \in [DispType -> Level \cup {NoValue}]
  <2>1. /\ floor \in [DispType -> Level] /\ level[t] \in Level
        /\ panel \in [DispType -> Level \cup {NoValue}]
    BY DEF TypeOK
  <2>2. \E v \in Level : floor' = [floor EXCEPT ![t] = v]
    BY <1>1, <2>1 DEF PendingBrightness
  <2>3. \E v \in Level \cup {NoValue} : panel' = [panel EXCEPT ![t] = v]
    BY <2>1 DEF PendingBrightness
  <2>4. floor' \in [DispType -> Level]
    BY <2>1, <2>2
  <2>5. panel' \in [DispType -> Level \cup {NoValue}]
    BY <2>1, <2>3
  <2> QED
    BY <2>4, <2>5
<1>3. PICK b \in PanelConfig, i \in PanelConfig \cup {NoValue} :
         \/ /\ config[t] \in PanelConfig
            /\ active' = [active EXCEPT ![t] = config[t]]
            /\ info' \in {[info EXCEPT ![t] = config[t]], [info EXCEPT ![t] = i]}
         \/ /\ active' = [active EXCEPT ![t] = b]
            /\ info' = [info EXCEPT ![t] = i]
  BY DEF PendingConfig, Attributes
<1>4. /\ active \in [DispType -> PanelConfig]
      /\ info \in [DispType -> PanelConfig \cup {NoValue}]
  BY DEF TypeOK
<1>5. active' \in [DispType -> PanelConfig]
  <2>1. \E v \in PanelConfig : active' = [active EXCEPT ![t] = v]
    BY <1>3
  <2> QED
    BY <1>4, <2>1
<1>6. info' \in [DispType -> PanelConfig \cup {NoValue}]
  <2>1. \E v \in PanelConfig \cup {NoValue} : info' = [info EXCEPT ![t] = v]
    BY <1>3
  <2> QED
    BY <1>4, <2>1
<1> QED
  BY <1>2, <1>5, <1>6

\* What is asked of a display keeps its types.
WishesTyped ==
    /\ asked \in [Event -> [DispType -> Level \cup Config \cup {NoValue}]]
    /\ waiting \in [Event -> SUBSET DispType]
    /\ minimum \in [DispType -> Level \cup {NoValue}]

LEMMA AsksTyped ==
  ASSUME TypeOK, NEW e \in Event, NEW t \in DispType,
         NEW v \in Level \cup Config, Asks(e, t, v)
  PROVE  WishesTyped'
<1>1. /\ asked \in [Event -> [DispType -> Level \cup Config \cup {NoValue}]]
      /\ waiting \in [Event -> SUBSET DispType]
      /\ minimum \in [DispType -> Level \cup {NoValue}]
  BY DEF TypeOK
<1>2. [asked[e] EXCEPT ![t] = v] \in [DispType -> Level \cup Config \cup {NoValue}]
  BY <1>1
<1>3. asked' \in [Event -> [DispType -> Level \cup Config \cup {NoValue}]]
  BY <1>1, <1>2 DEF Asks
<1>4. waiting' \in [Event -> SUBSET DispType]
  BY <1>1 DEF Asks
<1> QED
  BY <1>1, <1>3, <1>4 DEF Asks, WishesTyped

LEMMA ForgetsTyped ==
  ASSUME TypeOK, NEW t \in DispType, Forgets(t)
  PROVE  WishesTyped'
<1>1. /\ asked \in [Event -> [DispType -> Level \cup Config \cup {NoValue}]]
      /\ minimum \in [DispType -> Level \cup {NoValue}]
  BY DEF TypeOK
<1>2. \A e \in Event : [asked[e] EXCEPT ![t] = NoValue]
                          \in [DispType -> Level \cup Config \cup {NoValue}]
  BY <1>1
<1> QED
  BY <1>1, <1>2 DEF Forgets, WishesTyped

LEMMA NextTypeInv == TypeInv /\ [Next]_vars => TypeInv'
<1> SUFFICES ASSUME TypeInv, [Next]_vars PROVE TypeInv'
  OBVIOUS
<1> USE DEF TypeInv
<1>1. ASSUME NEW c \in Client, NEW t \in DispType, CreateShared(c, t)
      PROVE  TypeInv'
  BY <1>1
  DEF CreateShared, Gains, TypeOK, CallsTyped, Idle, eventVars, panelVars,
      wishVars
<1>2. ASSUME NEW c \in Client, NEW t \in DispType, CreateNew(c, t)
      PROVE  TypeInv'
  <2>1. pending' \in [Event -> DispType \cup {NoType}]
    BY <1>2 DEF CreateNew
  <2>2. PendingBrightness(t) /\ PendingConfig(t)
    BY <1>2 DEF CreateNew
  <2> QED
    BY <1>2, <2>1, <2>2, NewDisplayTyped, ForgetsTyped
    DEF CreateNew, Gains, WishesTyped, TypeOK, CallsTyped, Idle
<1>3. ASSUME NEW c \in Client, NEW t \in DispType, DestroyShared(c, t)
      PROVE  TypeInv'
  <2>1. refs[t] - 1 \in Nat
    BY <1>3 DEF DestroyShared, TypeOK
  <2> QED
    BY <1>3, <2>1
    DEF DestroyShared, Loses, TypeOK, CallsTyped, Idle, eventVars, panelVars,
        wishVars
<1>4. ASSUME NEW c \in Client, NEW t \in DispType, DestroyLast(c, t)
      PROVE  TypeInv'
  BY <1>4
  DEF DestroyLast, Loses, TypeOK, CallsTyped, Idle, eventVars, panelVars, wishVars
<1>5. ASSUME NEW c \in Client, NEW t \in DispType,
             DestroyFails(c, t) \/ DestroyAgain(c, t)
      PROVE  TypeInv'
  <2>1. /\ holds' \in [DispType -> SUBSET Client]
        /\ refs' \in [DispType -> Nat]
        /\ disp' \in [DispType -> {"none", "ready", "stripped"}]
    <3>1. CASE DestroyFails(c, t)
      <4>1. refs' \in [DispType -> Nat]
        BY <3>1 DEF DestroyFails, TypeOK
      <4>2. disp' \in [DispType -> {"none", "ready", "stripped"}]
        BY <3>1 DEF DestroyFails, TypeOK
      <4> QED
        BY <3>1, <4>1, <4>2 DEF DestroyFails, TypeOK
    <3>2. CASE DestroyAgain(c, t)
      <4>1. holds' \in [DispType -> SUBSET Client]
        BY <3>2 DEF DestroyAgain, Loses, TypeOK
      <4> QED
        BY <3>2, <4>1 DEF DestroyAgain, TypeOK
    <3> QED
      BY <1>5, <3>1, <3>2
  <2>2. UNCHANGED <<eventVars, panelVars, wishVars, call>>
    BY <1>5 DEF DestroyFails, DestroyAgain
  <2> QED
    BY <2>1, <2>2
    DEF TypeOK, CallsTyped, Idle, eventVars, panelVars, wishVars
<1>6. ASSUME NEW c \in Client, NEW t \in DispType, NEW v \in Level,
             CallBrightness(c, t, v)
      PROVE  TypeInv'
  <2>1. PICK place \in {"check", "minimum"} : Enters(c, place, t, v)
    BY <1>6 DEF CallBrightness
  <2>2. /\ call' \in [Caller ->
                        [at : Place, type : DispType \cup {NoType}, level : Level]]
        /\ CallsTyped'
    BY <2>1 DEF Enters, TypeOK, CallsTyped, Idle, Caller, Place
  <2>3. UNCHANGED <<displayVars, eventVars, panelVars, wishVars>>
    BY <1>6 DEF CallBrightness
  <2> QED
    BY <2>2, <2>3 DEF TypeOK, displayVars, eventVars, panelVars, wishVars
<1>7. ASSUME NEW t \in DispType, NEW v \in Level,
             KeepBrightness(t, v) \/ SetBrightness(t, v)
      PROVE  TypeInv'
  <2>1. CASE KeepBrightness(t, v)
    <3>1. Asks("brightness", t, v)
      BY <2>1 DEF KeepBrightness
    <3> QED
      BY <2>1, <3>1, AsksTyped
      DEF WishesTyped, KeepBrightness, Emplaced, LevelKept, TypeOK, CallsTyped,
          Idle, Event, displayVars, panelVars
  <2>2. CASE SetBrightness(t, v)
    BY <2>2
    DEF SetBrightness, Enters, TypeOK, CallsTyped, Idle, Caller, Place,
        displayVars, eventVars, panelVars, wishVars
  <2> QED
    BY <1>7, <2>1, <2>2
<1>8. ASSUME NEW t \in DispType, NEW v \in Config, KeepConfig(t, v)
      PROVE  TypeInv'
  <2>1. Asks("config", t, v)
    BY <1>8 DEF KeepConfig
  <2> QED
    BY <1>8, <2>1, AsksTyped
    DEF WishesTyped, KeepConfig, Emplaced, TypeOK, CallsTyped, Idle, Event,
        displayVars, panelVars
<1>9. ASSUME NEW a \in Caller, BrightnessStep(a)
      PROVE  TypeInv'
  <2>1. call[a].type \in DispType /\ call[a].level \in Level
    BY <1>9
    DEF BrightnessStep, CheckLevel, TestMinimum, StoreMinimum, ShowLevel,
        SetMinimum, CompareCached, Idle, CallsTyped, TypeOK
  <2>2. \/ Returns(a)
        \/ \E place \in Place : Goes(a, place)
    BY <1>9
    DEF BrightnessStep, CheckLevel, TestMinimum, StoreMinimum, ShowLevel,
        SetMinimum, CompareCached, Place
  <2>3. /\ call' \in [Caller ->
                        [at : Place, type : DispType \cup {NoType}, level : Level]]
        /\ CallsTyped'
    <3>1. CASE Returns(a)
      BY <3>1, DisplayConstants
      DEF Returns, NoCall, TypeOK, CallsTyped, Idle, Place, Level
    <3>2. ASSUME NEW place \in Place, Goes(a, place)
          PROVE  /\ call' \in [Caller -> [at : Place, type : DispType \cup {NoType},
                                          level : Level]]
                 /\ CallsTyped'
      BY <2>1, <3>2 DEF Goes, TypeOK, CallsTyped, Idle
    <3> QED
      BY <2>2, <3>1, <3>2
  <2>4. /\ floor' \in [DispType -> Level]
        /\ panel' \in [DispType -> Level \cup {NoValue}]
        /\ minimum' \in [DispType -> Level \cup {NoValue}]
        /\ UNCHANGED <<displayVars, eventVars, active, info, asked, waiting>>
    BY <1>9, <2>1
    DEF BrightnessStep, CheckLevel, TestMinimum, StoreMinimum, ShowLevel,
        SetMinimum, CompareCached, TypeOK, panelVars, wishVars
  <2> QED
    BY <2>3, <2>4 DEF TypeOK, displayVars, eventVars
<1>10. CASE UNCHANGED vars
  BY <1>10
  DEF vars, TypeOK, CallsTyped, Idle, displayVars, eventVars, panelVars, wishVars
<1> QED
  BY <1>1, <1>2, <1>3, <1>4, <1>5, <1>6, <1>7, <1>8, <1>9, <1>10 DEF Next

\* The types of the displays, whatever fails: disp_ref_count_ does not go
\* below 0, although a failed DestroyDisplay spends a reference and is called
\* again, and a call under way has a display type.
THEOREM DisplaysTyped == Spec => []TypeOK
<1>1. TypeInv => TypeOK
  BY DEF TypeInv
<1> QED
  BY <1>1, InitTypeInv, NextTypeInv, PTL DEF Spec

\* An entry of pending_events_ stands for an event that waits, an event has no
\* entry only if none waits, and the value kept for a type that waits is the
\* last one asked for.
KeptOK ==
    /\ \A e \in Event :
          /\ pending[e] = NoType => waiting[e] = {}
          /\ pending[e] # NoType => pending[e] \in waiting[e]
    /\ \A t \in waiting["brightness"] : level[t] = asked["brightness"][t]
    /\ \A t \in waiting["config"] : config[t] = asked["config"][t]

LEMMA InitKeptOK == Init => KeptOK
  BY DEF Init, KeptOK, Event

\* A reference is of a display that is there, whatever Deinit does.
CountedIsThere == \A t \in DispType : disp[t] = "none" => refs[t] = 0

LEMMA NextCountedIsThere ==
  TypeInv /\ CountedIsThere /\ [Next]_vars => CountedIsThere'
<1> SUFFICES ASSUME TypeInv, CountedIsThere, [Next]_vars
             PROVE  CountedIsThere'
  OBVIOUS
<1> USE DEF TypeInv, TypeOK, CountedIsThere
<1>1. ASSUME NEW c \in Client, NEW t \in DispType,
             CreateShared(c, t) \/ CreateNew(c, t)
      PROVE  CountedIsThere'
  BY <1>1 DEF CreateShared, CreateNew
<1>2. ASSUME NEW c \in Client, NEW t \in DispType,
             DestroyShared(c, t) \/ DestroyLast(c, t)
      PROVE  CountedIsThere'
  BY <1>2 DEF DestroyShared, DestroyLast
<1>3. ASSUME NEW c \in Client, NEW t \in DispType,
             DestroyFails(c, t) \/ DestroyAgain(c, t)
      PROVE  CountedIsThere'
  BY <1>3 DEF DestroyFails, DestroyAgain
<1>4. CASE EventOrCall \/ UNCHANGED vars
  BY <1>4, EventsLeaveDisplays DEF displayVars
<1> QED
  BY <1>1, <1>2, <1>3, <1>4 DEF Next, EventOrCall

\* One more type waits for event e: the entry is its own if there was none.
LEMMA EmplacedWaits ==
  ASSUME TypeOK, KeptOK, NEW e \in Event, NEW t \in DispType,
         pending' = Emplaced(e, t), waiting' = [waiting EXCEPT ![e] = @ \cup {t}]
  PROVE  \A f \in Event :
            /\ pending'[f] = NoType => waiting'[f] = {}
            /\ pending'[f] # NoType => pending'[f] \in waiting'[f]
<1> SUFFICES ASSUME NEW f \in Event
             PROVE  /\ pending'[f] = NoType => waiting'[f] = {}
                    /\ pending'[f] # NoType => pending'[f] \in waiting'[f]
  OBVIOUS
<1>1. /\ waiting \in [Event -> SUBSET DispType]
      /\ pending \in [Event -> DispType \cup {NoType}]
  BY DEF TypeOK
<1>2. CASE f # e
  BY <1>1, <1>2 DEF Emplaced, KeptOK
<1>3. CASE f = e
  <2>1. waiting'[f] = waiting[f] \cup {t}
    BY <1>1, <1>3
  <2>2. pending'[f] = IF pending[f] = NoType THEN t ELSE pending[f]
    BY <1>1, <1>3 DEF Emplaced
  <2> QED
    BY <2>1, <2>2, DisplayConstants DEF KeptOK
<1> QED
  BY <1>2, <1>3

LEMMA NextKeptOK == TypeInv /\ KeptOK /\ [Next]_vars => KeptOK'
<1> SUFFICES ASSUME TypeInv, KeptOK, [Next]_vars
             PROVE  KeptOK'
  OBVIOUS
<1> USE DEF TypeInv
<1>1. ASSUME UNCHANGED <<eventVars, asked, waiting>>
      PROVE  KeptOK'
  BY <1>1 DEF KeptOK, eventVars
<1>2. ASSUME NEW c \in Client, NEW t \in DispType,
             \/ CreateShared(c, t) \/ DestroyShared(c, t) \/ DestroyLast(c, t)
             \/ DestroyFails(c, t) \/ DestroyAgain(c, t)
      PROVE  KeptOK'
  BY <1>1, <1>2
  DEF CreateShared, DestroyShared, DestroyLast, DestroyFails, DestroyAgain, wishVars
<1>3. ASSUME NEW c \in Client, NEW t \in DispType, CreateNew(c, t)
      PROVE  KeptOK'
  BY <1>3 DEF CreateNew, Forgets, KeptOK, Event
<1>4. ASSUME NEW t \in DispType, NEW v \in Level, KeepBrightness(t, v)
      PROVE  KeptOK'
  <2>1. /\ pending' = Emplaced("brightness", t)
        /\ waiting' = [waiting EXCEPT !["brightness"] = @ \cup {t}]
        /\ asked' = [asked EXCEPT !["brightness"][t] = v]
        /\ level' = [level EXCEPT ![t] = v] /\ config' = config
    BY <1>4 DEF KeepBrightness, LevelKept, Asks
  <2>2. /\ waiting'["brightness"] = waiting["brightness"] \cup {t}
        /\ waiting'["config"] = waiting["config"]
        /\ waiting["brightness"] \in SUBSET DispType
    BY <2>1 DEF TypeOK, Event
  <2>3. /\ asked'["config"] = asked["config"]
        /\ asked'["brightness"] = [asked["brightness"] EXCEPT ![t] = v]
        /\ asked["brightness"] \in [DispType -> Level \cup Config \cup {NoValue}]
    BY <2>1 DEF TypeOK, Event
  <2>4. \A u \in waiting'["brightness"] : level'[u] = asked'["brightness"][u]
    BY <2>1, <2>2, <2>3 DEF KeptOK, TypeOK
  <2> QED
    BY <2>1, <2>2, <2>3, <2>4, EmplacedWaits DEF KeptOK, Event
<1>5. ASSUME NEW t \in DispType, NEW v \in Config, KeepConfig(t, v)
      PROVE  KeptOK'
  <2>1. /\ pending' = Emplaced("config", t)
        /\ waiting' = [waiting EXCEPT !["config"] = @ \cup {t}]
        /\ asked' = [asked EXCEPT !["config"][t] = v]
        /\ config' = [config EXCEPT ![t] = v] /\ level' = level
    BY <1>5 DEF KeepConfig, Asks
  <2>2. /\ waiting'["config"] = waiting["config"] \cup {t}
        /\ waiting'["brightness"] = waiting["brightness"]
        /\ waiting["config"] \in SUBSET DispType
    BY <2>1 DEF TypeOK, Event
  <2>3. /\ asked'["brightness"] = asked["brightness"]
        /\ asked'["config"] = [asked["config"] EXCEPT ![t] = v]
        /\ asked["config"] \in [DispType -> Level \cup Config \cup {NoValue}]
    BY <2>1 DEF TypeOK, Event
  <2>4. \A u \in waiting'["config"] : config'[u] = asked'["config"][u]
    BY <2>1, <2>2, <2>3 DEF KeptOK, TypeOK
  <2> QED
    BY <2>1, <2>2, <2>3, <2>4, EmplacedWaits DEF KeptOK, Event
<1>6. ASSUME NEW t \in DispType, NEW v \in Level, SetBrightness(t, v)
      PROVE  KeptOK'
  BY <1>1, <1>6 DEF SetBrightness, wishVars
<1>7. ASSUME NEW c \in Client, NEW t \in DispType, NEW v \in Level,
             CallBrightness(c, t, v)
      PROVE  KeptOK'
  BY <1>1, <1>7 DEF CallBrightness, wishVars
<1>8. ASSUME NEW a \in Caller, BrightnessStep(a)
      PROVE  KeptOK'
  BY <1>1, <1>8
  DEF BrightnessStep, CheckLevel, TestMinimum, StoreMinimum, ShowLevel,
      SetMinimum, CompareCached, wishVars
<1>9. CASE UNCHANGED vars
  BY <1>1, <1>9 DEF vars, wishVars
<1> QED
  BY <1>2, <1>3, <1>4, <1>5, <1>6, <1>7, <1>8, <1>9 DEF Next

\* Only CreateNew makes a display: a failed Deinit leaves the one there is.
LEMMA OnlyCreateMakes ==
  ASSUME TypeInv, CountedIsThere, [Next]_vars,
         NEW t \in DispType, disp[t] = "none", disp'[t] # "none"
  PROVE  \E c \in Client : CreateNew(c, t)
<1> USE DEF TypeInv
<1>1. ASSUME NEW c \in Client, NEW u \in DispType, CreateNew(c, u)
      PROVE  u = t
  BY <1>1 DEF CreateNew, TypeOK
<1>2. ASSUME NEW c \in Client, NEW u \in DispType,
             \/ CreateShared(c, u) \/ DestroyShared(c, u) \/ DestroyAgain(c, u)
             \/ DestroyLast(c, u)
      PROVE  FALSE
  BY <1>2 DEF CreateShared, DestroyShared, DestroyAgain, DestroyLast, TypeOK
<1>3. ASSUME NEW c \in Client, NEW u \in DispType, DestroyFails(c, u)
      PROVE  FALSE
  <2>1. disp' = disp \/ disp' = [disp EXCEPT ![u] = "stripped"]
    BY <1>3 DEF DestroyFails
  <2>2. CASE u # t
    BY <2>1, <2>2 DEF TypeOK
  <2>3. CASE u = t
    BY <1>3, <2>3 DEF DestroyFails, CountedIsThere
  <2> QED
    BY <2>2, <2>3
<1>4. CASE EventOrCall \/ UNCHANGED vars
  BY <1>4, EventsLeaveDisplays DEF displayVars
<1> QED
  BY <1>1, <1>2, <1>3, <1>4 DEF Next, EventOrCall

\* One event kept, for t alone, is the entry of its kind.
LEMMA AloneIsEntry ==
  ASSUME TypeOK, KeptOK, NEW e \in Event, NEW t \in DispType, waiting[e] = {t}
  PROVE  pending[e] = t
  BY DEF KeptOK

LEMMA StepApplies ==
  ASSUME TypeInv, CountedIsThere, KeptOK, [Next]_vars,
         NEW t \in DispType, disp[t] = "none", disp'[t] # "none"
  PROVE  AppliesKept(t)
<1> USE DEF TypeInv
<1>1. PICK c \in Client : CreateNew(c, t)
  BY OnlyCreateMakes
<1>2. PendingBrightness(t) /\ PendingConfig(t)
  BY <1>1 DEF CreateNew
<1>3. ASSUME waiting["brightness"] = {t}
      PROVE  /\ floor'[t] = asked["brightness"][t]
             /\ panel'[t] \in {asked["brightness"][t], NoValue}
             /\ "panel" \notin Faults => panel'[t] # NoValue
  <2>1. pending["brightness"] = t
    BY <1>3, AloneIsEntry DEF Event
  <2>2. level[t] = asked["brightness"][t] /\ level[t] \in Level
    BY <1>3 DEF KeptOK, TypeOK
  <2>3. level[t] # NoValue
    BY <2>2, DisplayConstants
  <2>4. floor' = [floor EXCEPT ![t] = level[t]]
    BY <1>2, <2>1 DEF PendingBrightness
  <2>5. \/ panel' = [panel EXCEPT ![t] = level[t]]
        \/ "panel" \in Faults /\ panel' = [panel EXCEPT ![t] = NoValue]
    BY <1>2, <2>1 DEF PendingBrightness
  <2> QED
    BY <2>2, <2>3, <2>4, <2>5 DEF TypeOK
<1>4. ASSUME t \notin waiting["brightness"]
      PROVE  floor'[t] = 0 /\ panel'[t] = NoValue
  <2>1. pending["brightness"] # t
    BY <1>4, DisplayConstants DEF KeptOK, Event
  <2> QED
    BY <1>2, <2>1 DEF PendingBrightness, TypeOK
<1>5. ASSUME waiting["config"] = {t}, asked["config"][t] \in PanelConfig,
             Faults \cap {"setconfig", "getconfig"} = {}
      PROVE  active'[t] = asked["config"][t] /\ info'[t] = asked["config"][t]
  <2>1. pending["config"] = t
    BY <1>5, AloneIsEntry DEF Event
  <2>2. config[t] = asked["config"][t]
    BY <1>5 DEF KeptOK
  <2>3. /\ active' = [active EXCEPT ![t] = config[t]]
        /\ info' = [info EXCEPT ![t] = config[t]]
    BY <1>2, <1>5, <2>1, <2>2 DEF PendingConfig
  <2> QED
    BY <2>2, <2>3 DEF TypeOK
<1> QED
  BY <1>3, <1>4, <1>5 DEF AppliesKept

\* For any display types, and whatever fails of the panel and the core: a
\* display is created with the last brightness and configuration kept for it,
\* unless one was kept for another type too, and with no brightness if none
\* was kept.
THEOREM KeptIsApplied == Spec => PendingApplied
<1> DEFINE KeptInv == TypeInv /\ CountedIsThere /\ KeptOK
<1> DEFINE Step ==
      \A t \in DispType : disp[t] = "none" /\ disp'[t] # "none" => AppliesKept(t)
<1>1. Init => KeptInv
  BY InitTypeInv, InitKeptOK DEF Init, CountedIsThere
<1>2. KeptInv /\ [Next]_vars => KeptInv'
  BY NextTypeInv, NextCountedIsThere, NextKeptOK
<1>3. KeptInv /\ [Next]_vars => [Step]_vars
  BY StepApplies
<1>4. PendingApplied <=> [][Step]_vars
  BY DEF PendingApplied
<1> QED
  BY <1>1, <1>2, <1>3, <1>4, PTL DEF Spec
=============================================================================
