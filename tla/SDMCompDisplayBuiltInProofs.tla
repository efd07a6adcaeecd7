--------------------- MODULE SDMCompDisplayBuiltInProofs ---------------------
(***************************************************************************)
(* What holds of ShowBuffer for all buffers, geometries and modes, and     *)
(* whatever the core refuses.                                              *)
(***************************************************************************)
EXTENDS SDMCompDisplayBuiltIn, TLAPS

\* The layer has the geometry cached_buf_handle_ remembers and, once there is
\* one, the rate of the configuration; inside a call it is that of the buffer
\* of the call.
LayerIsBuffer ==
    /\ geometry = cached
    /\ cached # NoGeometry => rate = info
    /\ pc # "idle" =>
          buf \in Buffer /\ fd = buf /\ geometry = GeometryOf[buf]

\* validated_ is not set unless the last Prepare saw this layer and this mode,
\* and a Commit has it set.
ValidatedIsPrepared ==
    /\ validated => prepared = [geometry |-> geometry, mode |-> hwMode,
                              rate |-> rate]
    /\ pc = "commit" => validated

IInv == TypeOK /\ LayerIsBuffer /\ ValidatedIsPrepared /\ ModeNotForgotten

LEMMA InitIInv == Init => IInv
<1> SUFFICES ASSUME Init PROVE IInv
  OBVIOUS
<1>1. TypeOK
  BY BuiltInConstants
  DEF Init, TypeOK, PossibleList, Description, Unprepared
<1>2. LayerIsBuffer /\ ValidatedIsPrepared /\ ModeNotForgotten
  BY DEF Init, LayerIsBuffer, ValidatedIsPrepared, ModeNotForgotten
<1> QED
  BY <1>1, <1>2 DEF IInv

LEMMA NextIInv == IInv /\ [Next]_vars => IInv'
<1> SUFFICES ASSUME IInv, [Next]_vars PROVE IInv'
  OBVIOUS
<1> USE BuiltInConstants
    DEF IInv, TypeOK, LayerIsBuffer, ValidatedIsPrepared, ModeNotForgotten,
        Description, Unprepared, layerVars, modeVars, hwVars
<1>1. CASE \E b \in Buffer : SameGeometry(b)
  BY <1>1 DEF SameGeometry
<1>2. ASSUME NEW b \in Buffer, NewGeometry(b)
      PROVE  IInv'
  <2>1. GeometryOf[b] \in Geometry
    OBVIOUS
  <2>2. TypeOK'
    BY <1>2, <2>1 DEF NewGeometry
  <2>3. (LayerIsBuffer /\ ValidatedIsPrepared /\ ModeNotForgotten)'
    BY <1>2 DEF NewGeometry
  <2> QED
    BY <2>2, <2>3
<1>3. CASE KeepMode \/ ModeRefused
  BY <1>3 DEF KeepMode, ModeRefused
<1>4. CASE ModeApplied
  BY <1>4 DEF ModeApplied
<1>5. CASE AlreadyValid
  BY <1>5 DEF AlreadyValid
<1>6. CASE Validate
  BY <1>6 DEF Validate
<1>7. CASE ValidateFails
  BY <1>7 DEF ValidateFails
<1>8. CASE Commit
  BY <1>8 DEF Commit
<1>9. CASE CommitFails
  BY <1>9 DEF CommitFails
<1>10. CASE \E m \in Mode : SetColorMode(m)
  BY <1>10 DEF SetColorMode
<1>11. CASE Recreate
  BY <1>11 DEF Recreate, PossibleList
<1>12. CASE UNCHANGED vars
  BY <1>12 DEF vars
<1> QED
  BY <1>1, <1>2, <1>3, <1>4, <1>5, <1>6, <1>7, <1>8, <1>9, <1>10, <1>11,
     <1>12 DEF Next

LEMMA Invariance == Spec => []IInv
  BY InitIInv, NextIInv, PTL DEF Spec

\* A buffer is committed with its own geometry and in the mode the hardware
\* is in, on every path that leaves Prepare out: validated_ alone tells.
THEOREM CommitsAreDescribed == Spec => []CommitAsDescribed
<1>1. IInv => CommitAsDescribed
  BY BuiltInConstants
  DEF IInv, LayerIsBuffer, ValidatedIsPrepared, CommitAsDescribed
<1> QED
  BY <1>1, Invariance, PTL

\* No refusal of the core and no failed ShowBuffer loses a mode that was
\* asked for: until it is in force apply_mode_ stays set.
THEOREM ModesAreKept == Spec => []ModeNotForgotten
<1>1. IInv => ModeNotForgotten
  BY DEF IInv
<1> QED
  BY <1>1, Invariance, PTL

\* The types, for any buffers, geometries, modes and configurations, through
\* every re-creation of the display and every refusal of the core.
THEOREM DisplayTyped == Spec => []TypeOK
<1>1. IInv => TypeOK
  BY DEF IInv
<1> QED
  BY <1>1, Invariance, PTL
=============================================================================
