----------------------- MODULE SDMCompDisplayBuiltIn -----------------------
(***************************************************************************)
(* One display of a composer while buffers are shown on it: ShowBuffer and *)
(* SetColorModeWithRenderIntent of                                         *)
(* libsdmcomposer/src/sdm_comp_display_builtin.cpp.                        *)
(*                                                                         *)
(* SDMCompImpl calls both with recursive_mutex_ held, so one call is under *)
(* way at a time; ShowBuffer is divided where it calls display_intf_, the  *)
(* display of the core, which may refuse.  display_intf_ is not part of    *)
(* this repository.  As ShowBuffer uses it, Prepare checks the layer and   *)
(* keeps its description, and Commit puts the layer's buffer on the panel  *)
(* as the last Prepare described it.  ShowBuffer does not Prepare again    *)
(* while validated_ says that the last description still holds: that is    *)
(* what can go wrong.                                                      *)
(*                                                                         *)
(* A geometry stands for the fields of a BufferHandle that are compared    *)
(* with cached_buf_handle_, a mode for a gamut, a gamma and an intent, a    *)
(* configuration for the numbers of a DisplayConfigVariableInfo.           *)
(***************************************************************************)
EXTENDS FiniteSets

CONSTANTS
    Buffer,         \* the buffers of the client
    Geometry,       \* size, aligned size, format and crop of a buffer
    GeometryOf,     \* the geometry of each buffer
    NoGeometry,     \* that of a default BufferHandle
    Mode,           \* colour modes a client may ask for
    StcMode,        \* those among them in the list of the core
    NoMode,         \* a default ColorMode
    Config,         \* the configurations of the panel
    NoConfig,       \* none prepared
    Nothing,        \* no buffer, nothing prepared, nothing on the panel
    Faults          \* the calls of the core that may fail

AnyFault == {"list", "mode", "prepare", "commit"}

ASSUME BuiltInConstants ==
    /\ GeometryOf \in [Buffer -> Geometry]
    /\ NoGeometry \notin Geometry
    /\ StcMode \subseteq Mode /\ NoMode \notin Mode
    /\ NoConfig \notin Config
    /\ Nothing \notin Buffer
    /\ Faults \subseteq AnyFault

VARIABLES
    pc,         \* where ShowBuffer is
    buf,        \* its buf_handle
    fd,         \* planes[0].fd of the one layer in layer_set_
    geometry,   \* what PrepareLayerStack takes from the buffer besides
    rate,       \* frame_rate of the layer, by its configuration
    info,       \* variable_info_
    cached,     \* cached_buf_handle_
    validated,  \* validated_
    current,    \* current_mode_
    apply,      \* apply_mode_
    list,       \* stc_mode_list_
    hwMode,     \* the mode display_intf_ is in
    prepared,   \* what its last Prepare described
    screen      \* what the panel shows

layerVars == <<fd, geometry, rate, info, cached>>
modeVars == <<current, apply, list>>
hwVars == <<hwMode, prepared, screen>>
vars == <<pc, buf, layerVars, validated, modeVars, hwVars>>

Description == [geometry : Geometry \cup {NoGeometry}, mode : Mode \cup {NoMode},
                rate : Config \cup {NoConfig}]
Unprepared == [geometry |-> NoGeometry, mode |-> NoMode, rate |-> NoConfig]

TypeOK ==
    /\ pc \in {"idle", "colour", "validate", "commit"}
    /\ buf \in Buffer \cup {Nothing}
    /\ fd \in Buffer \cup {Nothing}
    /\ geometry \in Geometry \cup {NoGeometry}
    /\ rate \in Config /\ info \in Config
    /\ cached \in Geometry \cup {NoGeometry}
    /\ validated \in BOOLEAN
    /\ current \in Mode \cup {NoMode}
    /\ apply \in BOOLEAN
    /\ list \in SUBSET StcMode
    /\ hwMode \in Mode \cup {NoMode}
    /\ prepared \in Description
    /\ screen \in [buffer : Buffer \cup {Nothing}, as : Description]

\* The constructor and Init, with whatever mode and configuration the core's
\* display is in.  CreateLayerSet takes the rate of that configuration; a
\* pending one may have replaced it in variable_info_ before CreateDisplay
\* returns (HandlePendingEvents), and none does later: OnEvent refuses.
PossibleListUncleared == {StcMode, Mode}
PossibleList == {StcMode} \cup (IF "list" \in Faults THEN {{}} ELSE {})

Init ==
    /\ pc = "idle" /\ buf = Nothing
    /\ fd = Nothing /\ geometry = NoGeometry /\ cached = NoGeometry
    /\ rate \in Config /\ info \in Config
    /\ validated = FALSE
    /\ current = NoMode /\ apply = FALSE /\ list \in PossibleList
    /\ hwMode \in StcMode \cup {NoMode}
    /\ prepared = Unprepared
    /\ screen = [buffer |-> Nothing, as |-> Unprepared]

\* DestroyDisplay, then CreateDisplay, by the only client: Flush takes the
\* buffer off the panel and a new SDMCompDisplayBuiltIn starts.
Recreate ==
    /\ pc = "idle"
    /\ pc' = "idle" /\ buf' = Nothing
    /\ fd' = Nothing /\ geometry' = NoGeometry /\ cached' = NoGeometry
    /\ rate' \in Config /\ info' \in Config
    /\ validated' = FALSE
    /\ current' = NoMode /\ apply' = FALSE /\ list' \in PossibleList
    /\ hwMode' \in StcMode \cup {NoMode}
    /\ prepared' = Unprepared
    /\ screen' = [buffer |-> Nothing, as |-> Unprepared]

---------------------------------------------------------------------------
(* ShowBuffer                                                              *)

\* PrepareLayerStack when the buffer is like the last one.
SameGeometry(b) ==
    /\ pc = "idle" /\ GeometryOf[b] = cached
    /\ pc' = "colour" /\ buf' = b
    /\ fd' = b
    /\ UNCHANGED <<geometry, rate, info, cached, validated, modeVars, hwVars>>

\* PrepareLayerStack when it is not.
NewGeometry(b) ==
    /\ pc = "idle" /\ GeometryOf[b] # cached
    /\ pc' = "colour" /\ buf' = b
    /\ fd' = b /\ geometry' = GeometryOf[b] /\ cached' = GeometryOf[b]
    /\ rate' = info
    /\ validated' = FALSE
    /\ UNCHANGED <<info, modeVars, hwVars>>

\* ApplyCurrentColorModeWithRenderIntent: nothing to apply, or no mode of the
\* list is the current one.  It returns 0, as in all that follows.
KeepMode ==
    /\ pc = "colour" /\ (list = {} \/ ~apply \/ current \notin list)
    /\ pc' = "validate"
    /\ UNCHANGED <<buf, layerVars, validated, modeVars, hwVars>>

\* The core refuses the mode: apply_mode_ stays set.
ModeRefused ==
    /\ pc = "colour" /\ apply /\ current \in list
    /\ "mode" \in Faults
    /\ pc' = "validate"
    /\ UNCHANGED <<buf, layerVars, validated, modeVars, hwVars>>

ModeAppliedStaysValid ==
    /\ pc = "colour" /\ apply /\ current \in list
    /\ pc' = "validate"
    /\ hwMode' = current
    /\ apply' = FALSE
    /\ UNCHANGED <<buf, layerVars, validated, current, list, prepared, screen>>
ModeApplied ==
    /\ pc = "colour" /\ apply /\ current \in list
    /\ pc' = "validate"
    /\ hwMode' = current
    /\ apply' = FALSE /\ validated' = FALSE
    /\ UNCHANGED <<buf, layerVars, current, list, prepared, screen>>

\* Prepare, or none when the last one still holds.
AlreadyValid ==
    /\ pc = "validate" /\ validated
    /\ pc' = "commit"
    /\ UNCHANGED <<buf, layerVars, validated, modeVars, hwVars>>

Validate ==
    /\ pc = "validate" /\ ~validated
    /\ pc' = "commit"
    /\ prepared' = [geometry |-> geometry, mode |-> hwMode, rate |-> rate]
    /\ validated' = TRUE
    /\ UNCHANGED <<buf, layerVars, modeVars, hwMode, screen>>

\* A Prepare that fails may leave nothing prepared.
ValidateFails ==
    /\ pc = "validate" /\ ~validated
    /\ "prepare" \in Faults
    /\ pc' = "idle"
    /\ prepared' \in {prepared, Unprepared}
    /\ UNCHANGED <<buf, layerVars, validated, modeVars, hwMode, screen>>

\* Commit, and ShowBuffer returns 0.
Commit ==
    /\ pc = "commit"
    /\ pc' = "idle"
    /\ screen' = [buffer |-> fd, as |-> prepared]
    /\ UNCHANGED <<buf, layerVars, validated, modeVars, hwMode, prepared>>

CommitFails ==
    /\ pc = "commit"
    /\ "commit" \in Faults
    /\ pc' = "idle"
    /\ UNCHANGED <<buf, layerVars, validated, modeVars, hwVars>>

---------------------------------------------------------------------------

\* SetColorModeWithRenderIntent with valid parameters; the current mode is
\* returned for at once.
SetModeOnly(m) ==
    /\ pc = "idle" /\ m # current
    /\ current' = m
    /\ UNCHANGED <<pc, buf, layerVars, validated, apply, list, hwVars>>
SetColorMode(m) ==
    /\ pc = "idle" /\ m # current
    /\ current' = m
    /\ apply' = TRUE
    /\ UNCHANGED <<pc, buf, layerVars, validated, list, hwVars>>

Next ==
    \/ \E b \in Buffer : SameGeometry(b) \/ NewGeometry(b)
    \/ KeepMode \/ ModeRefused \/ ModeApplied
    \/ AlreadyValid \/ Validate \/ ValidateFails
    \/ Commit \/ CommitFails
    \/ \E m \in Mode : SetColorMode(m)
    \/ Recreate

Spec == Init /\ [][Next]_vars

---------------------------------------------------------------------------
(* Properties                                                              *)

\* What is about to reach the panel is the buffer of the call, described as
\* it is: its own geometry, the mode the hardware is in and the rate of the
\* configuration that was asked for, although Prepare is left out whenever
\* validated_ is set and the layer is made before that configuration is
\* (sdm_comp_display_builtin.cpp:182-191, against the early return of :363-373,
\* the failures of :184-187 and :192, and CreateLayerSet, :338).
CommitAsDescribed ==
    pc = "commit" =>
        /\ fd = buf
        /\ prepared = [geometry |-> GeometryOf[buf], mode |-> hwMode, rate |-> info]

\* A mode that was asked for is in force or still to be applied, whatever the
\* core refused meanwhile (apply_mode_, :235 and :297).
ModeNotForgotten == current # NoMode /\ ~apply => hwMode = current
=============================================================================
