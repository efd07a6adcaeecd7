-------------------------- MODULE SDMCompDisplays --------------------------
(***************************************************************************)
(* The displays of a composer: CreateDisplay, DestroyDisplay, OnEvent,     *)
(* HandlePendingEvents and the brightness calls of                         *)
(* libsdmcomposer/src/sdm_comp_impl.cpp, with what they do of              *)
(* SDMCompDisplayBuiltIn (Init, Deinit, SetDisplayConfig, SetPanelBright-  *)
(* ness, SetMinPanelBrightness).                                           *)
(*                                                                         *)
(* All but the brightness calls run under recursive_mutex_ and are one     *)
(* action, whichever thread calls them.  A client's SetPanelBrightness and *)
(* SetMinPanelBrightness take no lock: they are divided at each access of  *)
(* the display, and so is the call that OnEvent makes of the former, whose *)
(* thread holds recursive_mutex_ meanwhile.                                *)
(*                                                                         *)
(* The clients of a display type share one SDMCompDisplayBuiltIn, counted  *)
(* by disp_ref_count_.  An event for a display that does not exist is kept *)
(* for its creation in pending_events_, a map with one entry per event.    *)
(***************************************************************************)
EXTENDS Naturals, FiniteSets

CONSTANTS
    Client,         \* users of the composer; one with two handles is two
    Service,        \* the thread that is in OnEvent, one at a time
    DispType,       \* SDMCompDisplayType
    NoType,         \* no entry in pending_events_
    MaxLevel,       \* bound: brightness levels 0 .. MaxLevel, 0 is 0.0f
    Config,         \* display configurations that may be asked for
    PanelConfig,    \* those among them the panel has
    NoValue,        \* nothing asked, nothing shown
    Faults          \* the calls that may fail

Level == 0 .. MaxLevel
Event == {"brightness", "config"}
AnyFault == {"flush", "destroy", "setconfig", "getconfig", "panel"}

ASSUME DisplayConstants ==
    /\ NoType \notin DispType
    /\ Service \notin Client
    /\ MaxLevel \in Nat /\ IsFiniteSet(Client)
    /\ PanelConfig \subseteq Config /\ PanelConfig # {}
    /\ NoValue \notin Level \cup Config
    /\ Faults \subseteq AnyFault

VARIABLES
    disp,       \* display_builtin_: "none", "ready", or "stripped" of its layer
    refs,       \* disp_ref_count_
    holds,      \* the clients that have a handle to destroy
    pending,    \* pending_events_
    level,      \* panel_brightness_
    config,     \* disp_configs_
    floor,      \* min_panel_brightness_ of the display
    panel,      \* the brightness the panel shows
    active,     \* the configuration the panel is in
    info,       \* variable_info_ of the display
    asked,      \* the last event of each kind kept since the display went
    waiting,    \* the types events were kept for since a display was made
    minimum,    \* the last minimum its clients set for the display
    call        \* where each caller is in a brightness call

displayVars == <<disp, refs, holds>>
eventVars == <<pending, level, config>>
panelVars == <<floor, panel, active, info>>
wishVars == <<asked, waiting, minimum>>
vars == <<displayVars, eventVars, panelVars, wishVars, call>>

Caller == Client \cup {Service}
Place == {"idle", "check", "test", "store", "show", "minimum", "cached"}
NoCall == [at |-> "idle", type |-> NoType, level |-> 0]

TypeOK ==
    /\ disp \in [DispType -> {"none", "ready", "stripped"}]
    /\ refs \in [DispType -> Nat]
    /\ holds \in [DispType -> SUBSET Client]
    /\ pending \in [Event -> DispType \cup {NoType}]
    /\ level \in [DispType -> Level]
    /\ config \in [DispType -> Config \cup {NoValue}]
    /\ floor \in [DispType -> Level]
    /\ panel \in [DispType -> Level \cup {NoValue}]
    /\ active \in [DispType -> PanelConfig]
    /\ info \in [DispType -> PanelConfig \cup {NoValue}]
    /\ asked \in [Event -> [DispType -> Level \cup Config \cup {NoValue}]]
    /\ waiting \in [Event -> SUBSET DispType]
    /\ minimum \in [DispType -> Level \cup {NoValue}]
    /\ call \in [Caller ->
                    [at : Place, type : DispType \cup {NoType}, level : Level]]

Init ==
    /\ disp = [t \in DispType |-> "none"]
    /\ refs = [t \in DispType |-> 0]
    /\ holds = [t \in DispType |-> {}]
    /\ pending = [e \in Event |-> NoType]
    /\ level = [t \in DispType |-> 0]
    /\ config = [t \in DispType |-> NoValue]
    /\ floor = [t \in DispType |-> 0]
    /\ panel = [t \in DispType |-> NoValue]
    /\ active \in [DispType -> PanelConfig]
    /\ info = [t \in DispType |-> NoValue]
    /\ asked = [e \in Event |-> [t \in DispType |-> NoValue]]
    /\ waiting = [e \in Event |-> {}]
    /\ minimum = [t \in DispType |-> NoValue]
    /\ call = [a \in Caller |-> NoCall]

Idle(a) == call[a].at = "idle"

\* recursive_mutex_ can be taken by client c, which is in no other call.
MayLock(c) == Idle(c) /\ Idle(Service)

---------------------------------------------------------------------------
(* CreateDisplay.  One that fails, or finds no connected display of the    *)
(* type and says 0 all the same, changes nothing and is not an action.     *)

Gains(c, t) == holds' = [holds EXCEPT ![t] = @ \cup {c}]
Loses(c, t) == holds' = [holds EXCEPT ![t] = @ \ {c}]

\* The display exists: one more reference, the callback parameter unused.
CreateSharedUncounted(c, t) ==
    /\ MayLock(c) /\ c \notin holds[t] /\ disp[t] # "none"
    /\ Gains(c, t)
    /\ UNCHANGED <<disp, refs, eventVars, panelVars, wishVars, call>>
CreateShared(c, t) ==
    /\ MayLock(c) /\ c \notin holds[t] /\ disp[t] # "none"
    /\ refs' = [refs EXCEPT ![t] = @ + 1]
    /\ Gains(c, t)
    /\ UNCHANGED <<disp, eventVars, panelVars, wishVars, call>>

\* HandlePendingEvents, brightness: floor and level of the new display.  A
\* minimum of 0 becomes the level asked for, before the panel is told.
PendingBrightness(t) ==
    IF pending["brightness"] = t
    THEN /\ floor' = [floor EXCEPT ![t] = level[t]]
         /\ \/ panel' = [panel EXCEPT ![t] = level[t]]
            \/ "panel" \in Faults /\ panel' = [panel EXCEPT ![t] = NoValue]
    ELSE /\ floor' = [floor EXCEPT ![t] = 0]
         /\ panel' = [panel EXCEPT ![t] = NoValue]

\* SDMCompDisplayBuiltIn::Init takes the configuration b the panel is in.
Attributes(b) == {b} \cup (IF "getconfig" \in Faults THEN {NoValue} ELSE {})

\* HandlePendingEvents, configuration: the first one of the panel's that is
\* the one asked for and can be set.  SetDisplayConfig fails before or after
\* it has changed the panel; after, variable_info_ stays what it was.
PendingConfig(t) ==
    \E b \in PanelConfig : \E i \in Attributes(b) :
        IF pending["config"] = t /\ config[t] \in PanelConfig
        THEN \/ /\ active' = [active EXCEPT ![t] = config[t]]
                /\ info' = [info EXCEPT ![t] = config[t]]
             \/ /\ "getconfig" \in Faults
                /\ active' = [active EXCEPT ![t] = config[t]]
                /\ info' = [info EXCEPT ![t] = i]
             \/ /\ Faults \cap {"setconfig", "getconfig"} # {}
                /\ active' = [active EXCEPT ![t] = b]
                /\ info' = [info EXCEPT ![t] = i]
        ELSE /\ active' = [active EXCEPT ![t] = b]
             /\ info' = [info EXCEPT ![t] = i]

\* What was asked of t is settled; nothing kept for any type waits any more.
Forgets(t) ==
    /\ asked' = [e \in Event |-> [asked[e] EXCEPT ![t] = NoValue]]
    /\ waiting' = [e \in Event |-> {}]
    /\ minimum' = [minimum EXCEPT ![t] = NoValue]

\* A new display: registered, then given the events kept for it; all the
\* entries of pending_events_ go, the ones of other displays too.
CreateNew(c, t) ==
    /\ MayLock(c) /\ c \notin holds[t] /\ disp[t] = "none"
    /\ disp' = [disp EXCEPT ![t] = "ready"]
    /\ refs' = [refs EXCEPT ![t] = @ + 1]
    /\ Gains(c, t)
    /\ PendingBrightness(t)
    /\ PendingConfig(t)
    /\ pending' = [e \in Event |-> NoType]
    /\ Forgets(t)
    /\ UNCHANGED <<level, config, call>>

---------------------------------------------------------------------------
(* DestroyDisplay                                                          *)

\* Other references are left.
DestroyShared(c, t) ==
    /\ MayLock(c) /\ c \in holds[t] /\ refs[t] > 1
    /\ refs' = [refs EXCEPT ![t] = @ - 1]
    /\ Loses(c, t)
    /\ UNCHANGED <<disp, eventVars, panelVars, wishVars, call>>

\* The last reference: flushed, its layer and the core's display destroyed.
DestroyLastKeepsPointer(c, t) ==
    /\ MayLock(c) /\ c \in holds[t] /\ refs[t] = 1
    /\ refs' = [refs EXCEPT ![t] = 0]
    /\ Loses(c, t)
    /\ UNCHANGED <<disp, eventVars, panelVars, wishVars, call>>
DestroyLastUnlocked(c, t) ==
    /\ Idle(c) /\ c \in holds[t] /\ refs[t] = 1
    /\ refs' = [refs EXCEPT ![t] = 0]
    /\ disp' = [disp EXCEPT ![t] = "none"]
    /\ Loses(c, t)
    /\ UNCHANGED <<eventVars, panelVars, wishVars, call>>
DestroyLast(c, t) ==
    /\ MayLock(c) /\ c \in holds[t] /\ refs[t] = 1
    /\ refs' = [refs EXCEPT ![t] = 0]
    /\ disp' = [disp EXCEPT ![t] = "none"]
    /\ Loses(c, t)
    /\ UNCHANGED <<eventVars, panelVars, wishVars, call>>

\* Deinit of the last reference fails at the flush, with everything still
\* there, or at the core's display, with the layer gone.  The reference is
\* spent and the caller, who gets an error, keeps the handle.
DestroyFails(c, t) ==
    /\ MayLock(c) /\ c \in holds[t] /\ refs[t] = 1
    /\ refs' = [refs EXCEPT ![t] = 0]
    /\ \/ "flush" \in Faults /\ UNCHANGED disp
       \/ "destroy" \in Faults /\ disp' = [disp EXCEPT ![t] = "stripped"]
    /\ UNCHANGED <<holds, eventVars, panelVars, wishVars, call>>

\* No reference is left to give back: 0, and nothing is done.
DestroyAgainUncounted(c, t) ==
    /\ MayLock(c) /\ c \in holds[t] /\ refs[t] = 0
    /\ refs' = [refs EXCEPT ![t] = @ - 1]
    /\ Loses(c, t)
    /\ UNCHANGED <<disp, eventVars, panelVars, wishVars, call>>
DestroyAgain(c, t) ==
    /\ MayLock(c) /\ c \in holds[t] /\ refs[t] = 0
    /\ Loses(c, t)
    /\ UNCHANGED <<disp, refs, eventVars, panelVars, wishVars, call>>

---------------------------------------------------------------------------
(* OnEvent                                                                 *)

\* map::emplace keeps the entry that is there.
Emplaced(e, t) ==
    IF pending[e] = NoType THEN [pending EXCEPT ![e] = t] ELSE pending

\* The value to keep for a display that does not exist yet.
FirstLevelKept(t, v) ==
    IF pending["brightness"] = NoType THEN [level EXCEPT ![t] = v] ELSE level
LevelKept(t, v) == [level EXCEPT ![t] = v]

Asks(e, t, v) ==
    /\ asked' = [asked EXCEPT ![e][t] = v]
    /\ waiting' = [waiting EXCEPT ![e] = @ \cup {t}]
    /\ UNCHANGED minimum

KeepBrightness(t, v) ==
    /\ Idle(Service) /\ disp[t] = "none"
    /\ pending' = Emplaced("brightness", t)
    /\ level' = LevelKept(t, v)
    /\ Asks("brightness", t, v)
    /\ UNCHANGED <<displayVars, config, panelVars, call>>

KeepConfig(t, v) ==
    /\ Idle(Service) /\ disp[t] = "none"
    /\ pending' = Emplaced("config", t)
    /\ config' = [config EXCEPT ![t] = v]
    /\ Asks("config", t, v)
    /\ UNCHANGED <<displayVars, level, panelVars, call>>

---------------------------------------------------------------------------
(* Brightness                                                              *)

Enters(a, place, t, v) ==
    call' = [call EXCEPT ![a] = [at |-> place, type |-> t, level |-> v]]
Goes(a, place) == call' = [call EXCEPT ![a].at = place]
Returns(a) == call' = [call EXCEPT ![a] = NoCall]

\* OnEvent for a display that exists; it returns 0 whatever comes of it.
SetBrightness(t, v) ==
    /\ Idle(Service) /\ disp[t] # "none"
    /\ Enters(Service, "check", t, v)
    /\ UNCHANGED <<displayVars, eventVars, panelVars, wishVars>>

\* A client calls SetPanelBrightness or SetMinPanelBrightness.  Only where
\* no Deinit fails: after a failed one a display may be deleted under it.
CallBrightness(c, t, v) ==
    /\ Faults \cap {"flush", "destroy"} = {}
    /\ Idle(c) /\ c \in holds[t]
    /\ Enters(c, "check", t, v) \/ Enters(c, "minimum", t, v)
    /\ UNCHANGED <<displayVars, eventVars, panelVars, wishVars>>

\* SetPanelBrightness: a level below the minimum is refused ...
CheckLevel(a) ==
    /\ call[a].at = "check"
    /\ IF call[a].level < floor[call[a].type] THEN Returns(a)
       ELSE Goes(a, "test")
    /\ UNCHANGED <<displayVars, eventVars, panelVars, wishVars>>

\* ... a minimum of 0 becomes the level ...
TestMinimum(a) ==
    /\ call[a].at = "test"
    /\ Goes(a, IF floor[call[a].type] = 0 THEN "store" ELSE "show")
    /\ UNCHANGED <<displayVars, eventVars, panelVars, wishVars>>
StoreMinimum(a) ==
    /\ call[a].at = "store"
    /\ floor' = [floor EXCEPT ![call[a].type] = call[a].level]
    /\ Goes(a, "show")
    /\ UNCHANGED <<displayVars, eventVars, panel, active, info, wishVars>>

\* ... and the panel shows it, or refuses.
ShowLevel(a) ==
    /\ call[a].at = "show"
    /\ \/ panel' = [panel EXCEPT ![call[a].type] = call[a].level]
       \/ "panel" \in Faults /\ UNCHANGED panel
    /\ Returns(a)
    /\ UNCHANGED <<displayVars, eventVars, floor, active, info, wishVars>>

\* SetMinPanelBrightness: the minimum is stored, and set as the level where
\* panel_brightness_, the last level kept for the type, is below it.
KeptBelow(a) == level[call[a].type] < call[a].level
SetMinimum(a) ==
    /\ call[a].at = "minimum"
    /\ floor' = [floor EXCEPT ![call[a].type] = call[a].level]
    /\ minimum' = [minimum EXCEPT ![call[a].type] = call[a].level]
    /\ Goes(a, "cached")
    /\ UNCHANGED <<displayVars, eventVars, panel, active, info, asked, waiting>>
CompareCached(a) ==
    /\ call[a].at = "cached"
    /\ IF KeptBelow(a) THEN Goes(a, "check") ELSE Returns(a)
    /\ UNCHANGED <<displayVars, eventVars, panelVars, wishVars>>

BrightnessStep(a) ==
    \/ CheckLevel(a) \/ TestMinimum(a) \/ StoreMinimum(a) \/ ShowLevel(a)
    \/ SetMinimum(a) \/ CompareCached(a)

---------------------------------------------------------------------------

Next ==
    \/ \E c \in Client, t \in DispType :
          \/ CreateShared(c, t) \/ CreateNew(c, t)
          \/ DestroyShared(c, t) \/ DestroyLast(c, t)
          \/ DestroyFails(c, t) \/ DestroyAgain(c, t)
          \/ \E v \in Level : CallBrightness(c, t, v)
    \/ \E t \in DispType :
          \/ \E v \in Level : KeepBrightness(t, v) \/ SetBrightness(t, v)
          \/ \E v \in Config : KeepConfig(t, v)
    \/ \E a \in Caller : BrightnessStep(a)

Spec == Init /\ [][Next]_vars

---------------------------------------------------------------------------
(* Properties                                                              *)

\* disp_ref_count_ (sdm_comp_impl.cpp:119, 158, 175) is the number of handles
\* the clients have of a display, and the display is there exactly while
\* there is one: no DestroyDisplay frees a display somebody still holds, and
\* none leaves one behind.  (Without failing Deinits: see
\* DestroyedWhenUnheld.)
RefsAreHolders ==
    \A t \in DispType :
        /\ refs[t] = Cardinality(holds[t])
        /\ refs[t] > 0 <=> disp[t] # "none"

\* The clients share the displays as SharedResources says: no step makes one
\* for nobody, takes one from a holder or keeps one that nobody has.
Shared ==
    INSTANCE SharedResources
        WITH Thing <- DispType, User <- Client,
             present <- {t \in DispType : disp[t] # "none"}, users <- holds

SharedByClients == Shared!Spec

\* The new display of type t has what was kept for it.
AppliesKept(t) ==
    /\ waiting["brightness"] = {t} =>
          /\ floor'[t] = asked["brightness"][t]
          /\ panel'[t] \in {asked["brightness"][t], NoValue}
          /\ "panel" \notin Faults => panel'[t] # NoValue
    /\ t \notin waiting["brightness"] => floor'[t] = 0 /\ panel'[t] = NoValue
    /\ /\ waiting["config"] = {t} /\ asked["config"][t] \in PanelConfig
       /\ Faults \cap {"setconfig", "getconfig"} = {}
       => active'[t] = asked["config"][t] /\ info'[t] = asked["config"][t]

\* A display is created with what was kept for it, whatever came first and
\* last (HandlePendingEvents, sdm_comp_impl.cpp:329-373): when nothing was
\* kept for another type since a display was last created, with the last
\* brightness, which is its minimum even if the panel refuses it, and in the
\* last configuration, if the panel has and takes it; a display for which no
\* brightness was kept since then has none.
PendingApplied ==
    [][\A t \in DispType :
          disp[t] = "none" /\ disp'[t] # "none" => AppliesKept(t)]_vars

\* A display created after a brightness came for it shows that brightness,
\* whatever came for displays of other types ("Cache panel brightness value
\* %f on display type %d", sdm_comp_impl.cpp:279).
EveryTypeApplied ==
    [][\A t \in DispType :
          disp[t] = "none" /\ disp'[t] # "none" /\ asked["brightness"][t] # NoValue
          => panel'[t] = asked["brightness"][t]]_vars

\* A brightness call works on a display that is there, although clients make
\* it with no lock while others destroy their handles: its own handle counts
\* (sdm_comp_impl.cpp:237, 246), and OnEvent has recursive_mutex_ (:269).
CallsOnLiveDisplay ==
    \A a \in Caller : ~ Idle(a) => disp[call[a].type] # "none"

\* When no call is under way, no panel is darker than the minimum its clients
\* set last: a level below it is not shown ("If the set brightness level is
\* below the minimum panel brightness values set by the API
\* SetMinPanelBrightness(), then it ignores the request", sdm_comp_interface.h:
\* 247-249), not even by a call that began before.  Where nothing was ever
\* kept for the type; for the rest see MinimumReached.
NotBelowMinimum ==
    (\A a \in Caller : Idle(a)) =>
        \A t \in DispType :
            /\ disp[t] = "ready" /\ level[t] = 0
            /\ panel[t] # NoValue /\ minimum[t] # NoValue
            => panel[t] >= minimum[t]

\* A client that sets a minimum above what the panel shows, while no other
\* call is under way, has the panel raised to it ("If the set brightness level
\* is below the minimum panel brightness threshold, Reset the panel brightness
\* level to minimum panel brightness value", sdm_comp_interface.h:261-262): the
\* comparison that decides (sdm_comp_impl.cpp:256) is of the level kept.
MinimumReached ==
    [][\A c \in Client :
          /\ call[c].at = "minimum" /\ call'[c].at = "cached"
          /\ \A a \in Caller \ {c} : Idle(a)
          /\ panel[call[c].type] # NoValue
          /\ panel[call[c].type] < call[c].level
          => KeptBelow(c)]_vars

\* Once every client has destroyed its handles, with 0 for an answer, the
\* display is gone (sdm_comp_interface.h:186-188).
DestroyedWhenUnheld ==
    \A t \in DispType : holds[t] = {} => disp[t] = "none"
=============================================================================
