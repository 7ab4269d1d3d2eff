-------------------------- MODULE DemoMachineProof --------------------------
(***************************************************************************)
(* Theorems about the demo machine.  FillingCell and CellPanel, for any    *)
(* configurations, targets, positions and jogs: production only on a ready *)
(* machine, stops that can always be left and only by Reset, the interlock *)
(* of the X axis, and an honest panel.  DemoClient and CommandStatus, for  *)
(* any clients, submits, command ids and buffer sizes: a command runs once,*)
(* what a submit returns is true, the submit flag is never lost, and       *)
(* snapshots are coherent.                                                 *)
(***************************************************************************)
EXTENDS CellPanel, DemoClient, SequenceTheorems, FiniteSetTheorems, WellFoundedInduction,
        TLAPS

-----------------------------------------------------------------------------
(* The filling cell.                                                       *)

StillStates == {"NotHomed", "Standstill", "Disabled"}

\* No axis is ever in motion and the pump never runs between two commands.
Resting ==
    /\ xAxis.state \in StillStates /\ zAxis.state \in StillStates
    /\ pumpState = "Stopped"
    /\ machineState \in {"Idle", "Ready", "Running", "Paused", "Aborted", "Faulted"}
    /\ operatingMode # "None"

\* A configuration that counts as valid is the one the batch was made for.
Configured ==
    configurationValid =>
        /\ validateRunConfiguration(configuration)
        /\ batch.targetCount = configuration.batchSize

\* Where the nozzle can be open: never after an abort, in a fault only in a mode
\* that can close it, and never with a fault the machine was started with.
Recoverable ==
    /\ machineState = "Aborted" => nozzleValve = "Closed" /\ operatingMode # "Manual"
    /\ machineState = "Faulted" /\ operatingMode = "Automatic" => nozzleValve = "Closed"
    /\ machineState = "Idle" /\ activeFaults # {} =>
          nozzleValve = "Closed" /\ operatingMode = "Automatic"

CellInv == CellTypeOK /\ Resting /\ Configured /\ ProductionIsReady /\ Recoverable

USE DEF MachineStates, OperatingModes, CyclePhases, FaultFlags, PumpStates,
        NozzleValveStates, ClampStates, Resting, CellTypeOK

\* The parts of CellInv that the shape of each command decides.
Quiet == CellTypeOK /\ Resting /\ Configured

-----------------------------------------------------------------------------
LEMMA PositionsAreInt ==
    /\ \A t \in XAxisTargets \ {"None"} : xAxisTargetPositions[t] \in Int
    /\ \A t \in ZAxisTargets \ {"None"} : zAxisTargetPositions[t] \in Int
BY DEF XAxisTargets, ZAxisTargets, xAxisTargetPositions, zAxisTargetPositions

LEMMA TargetsOfPositions ==
    ASSUME NEW p
    PROVE  xTargetForPosition(p) \in XAxisTargets /\ zTargetForPosition(p) \in ZAxisTargets
BY DEF XAxisTargets, ZAxisTargets, xTargetForPosition, zTargetForPosition

LEMMA JogsAreInt ==
    ASSUME NEW jog \in XJogs \cup ZJogs, NEW direction \in {1, -1}
    PROVE  jogDistance(jog, direction) \in Int
<1>1. jog.velocity \in Int /\ jog.maxDurationMs \in Int
  BY MotionAssumption
<1>2. jog.velocity * jog.maxDurationMs \in Int
  BY <1>1
<1>3. (jog.velocity * jog.maxDurationMs) \div 1000 \in Int
  BY <1>2
<1> QED BY <1>3 DEF jogDistance

\* What the helpers make of an axis.
LEMMA MovesKeepAxes ==
    ASSUME NEW targets, NEW axis \in Axis(targets), NEW target \in targets, NEW p \in Int,
           axis.state \in StillStates
    PROVE  /\ moveAxisTo(axis, target, p) \in Axis(targets)
           /\ moveAxisTo(axis, target, p).state \in StillStates
BY DEF Axis, AxisStates, StillStates, moveAxisTo, enabledState

LEMMA ServiceKeepsAxes ==
    ASSUME NEW targets, NEW axis \in Axis(targets), axis.state \in StillStates
    PROVE  /\ clearAxisFault(axis) \in Axis(targets)
           /\ clearAxisFault(axis).state \in StillStates
           /\ \A e \in BOOLEAN : /\ setAxisEnabled(axis, e) \in Axis(targets)
                                 /\ setAxisEnabled(axis, e).state \in StillStates
BY DEF Axis, AxisStates, StillStates, clearAxisFault, setAxisEnabled, enabledState

LEMMA HelpersKeepRest ==
    ASSUME NEW targets, NEW axis \in Axis(targets)
    PROVE  /\ \A target, p : moveAxisTo(axis, target, p).homed = axis.homed
           /\ clearAxisFault(axis).position = axis.position
           /\ \A e \in BOOLEAN : setAxisEnabled(axis, e).position = axis.position
BY DEF Axis, moveAxisTo, clearAxisFault, setAxisEnabled

LEMMA HomedAxes ==
    /\ homedX \in Axis(XAxisTargets) /\ homedX.state \in StillStates
    /\ homedZ \in Axis(ZAxisTargets) /\ homedZ.state \in StillStates
BY DEF Axis, AxisStates, StillStates, XAxisTargets, ZAxisTargets, homedX, homedZ, homeAxis,
   xAxisTargetPositions, zAxisTargetPositions

\* The re-evaluation ends in one of four states.
LEMMA EvaluationIsTyped ==
    ASSUME NEW state, transitionIdleOrReady(state), state \notin {"SafetyStopped"}
    PROVE  machineState' \in {"Idle", "Ready", "Faulted", "Aborted"} /\ cyclePhase' = "None"
BY DEF transitionIdleOrReady

LEMMA InitQuiet == CellInit => Quiet
<1> SUFFICES ASSUME CellInit PROVE Quiet
  OBVIOUS
<1>1. xAxis = newAxis /\ zAxis = newAxis
  BY DEF CellInit
<1>2. xAxis \in Axis(XAxisTargets) /\ zAxis \in Axis(ZAxisTargets)
  BY <1>1 DEF newAxis, Axis, AxisStates, XAxisTargets, ZAxisTargets
<1>3. tankLevel \in {0, 900, tankCapacityMl} /\ faults \subseteq FaultFlags
  BY DEF CellInit
<1>4. batch \in [targetCount : Nat, started : BOOLEAN, elapsed : 0..MaxElapsed]
  BY MotionAssumption DEF CellInit, resetBatch
<1>5. inspection \in [fillLevelOk : BOOLEAN, result : InspectionResults,
                      rejectReason : RejectReasons]
  BY DEF CellInit, notInspected, InspectionResults, RejectReasons
<1>6. Resting
  BY DEF CellInit, newAxis, StillStates
<1> QED BY <1>2, <1>3, <1>4, <1>5, <1>6 DEF CellInit, Quiet, Configured

-----------------------------------------------------------------------------
(* Quiet is kept, one leaf for each command.                               *)

\* A configuration that validates has every field a number has.
LEMMA ConfigurationsAreTyped ==
    ASSUME NEW c \in Configurations
    PROVE  /\ c.targetFillVolumeMl \in Int /\ c.fillToleranceMl \in Int
           /\ c.batchSize \in Int /\ c.pumpRateMlPerSecond \in Int
           /\ c.xAxisSpeed \in Int /\ c.zAxisSpeed \in Int
BY RequestAssumption

LEMMA MachineCommandKeepsQuiet == Quiet /\ MachineCommand => Quiet'
<1> SUFFICES ASSUME Quiet, MachineCommand PROVE Quiet'
  OBVIOUS
<1> USE DEF Quiet, Configured, lifecycle, settings, filling
<1>1. ASSUME NEW c \in Configurations, Machine_Configure(c) PROVE Quiet'
  <2>1. machineState' \in {"Idle", "Ready", "Faulted", "Aborted"} /\ cyclePhase' = "None"
    BY <1>1, EvaluationIsTyped DEF Machine_Configure
  <2>2. batch' \in [targetCount : Nat, started : BOOLEAN, elapsed : 0..MaxElapsed]
    <3>1. c.batchSize \in Nat
      <4>1. validateRunConfiguration(c)
        BY <1>1 DEF Machine_Configure
      <4>2. c.batchSize > 0 /\ c.batchSize \in Int
        BY <4>1, ConfigurationsAreTyped DEF validateRunConfiguration
      <4> QED BY <4>2
    <3>2. batch' = [targetCount |-> c.batchSize, started |-> FALSE, elapsed |-> 0]
      BY <1>1 DEF Machine_Configure, resetBatch
    <3> QED BY <3>1, <3>2, MotionAssumption
  <2>3. Configured'
    BY <1>1 DEF Machine_Configure, resetBatch
  <2> QED BY <1>1, <2>1, <2>2, <2>3 DEF Machine_Configure
<1>2. ASSUME NEW mode \in OperatingModes, Machine_SetMode(mode) PROVE Quiet'
  BY <1>2, EvaluationIsTyped DEF Machine_SetMode
<1>3. Machine_Home => Quiet'
  BY EvaluationIsTyped, HomedAxes DEF Machine_Home
<1>4. Machine_Start => Quiet'
  <2> SUFFICES ASSUME Machine_Start PROVE Quiet'
    OBVIOUS
  <2>1. xAxis' \in Axis(XAxisTargets) /\ xAxis'.state \in StillStates
    <3>1. "Load" \in XAxisTargets /\ xAxisTargetPositions["Load"] \in Int
      BY PositionsAreInt DEF XAxisTargets
    <3> QED BY <3>1, MovesKeepAxes DEF Machine_Start
  <2>2. batch' \in [targetCount : Nat, started : BOOLEAN, elapsed : 0..MaxElapsed]
        /\ batch'.targetCount = batch.targetCount
    BY DEF Machine_Start
  <2> QED BY <2>1, <2>2 DEF Machine_Start
<1>5. Machine_Pause => Quiet'
  BY DEF Machine_Pause
<1>8. Machine_Resume => Quiet'
  BY DEF Machine_Resume
<1>6. Machine_Abort => Quiet'
  BY ServiceKeepsAxes DEF Machine_Abort
<1>7. Machine_Reset => Quiet'
  BY EvaluationIsTyped DEF Machine_Reset
<1> QED BY <1>1, <1>2, <1>3, <1>4, <1>5, <1>6, <1>7, <1>8 DEF MachineCommand

\* A move leaves an axis typed and at rest; nothing else changes.
LEMMA ServiceCommandKeepsQuiet == Quiet /\ ServiceCommand => Quiet'
<1> SUFFICES ASSUME Quiet, ServiceCommand PROVE Quiet'
  OBVIOUS
<1> USE DEF Quiet, Configured, exceptMotion, lifecycle, settings, filling
<1>a. ASSUME xAxis' \in Axis(XAxisTargets), xAxis'.state \in StillStates,
             UNCHANGED <<zAxis, exceptMotion>>
      PROVE  Quiet'
  BY <1>a
<1>b. ASSUME zAxis' \in Axis(ZAxisTargets), zAxis'.state \in StillStates,
             UNCHANGED <<xAxis, exceptMotion>>
      PROVE  Quiet'
  BY <1>b
<1>c. xAxis.position \in Int /\ zAxis.position \in Int
  BY DEF Axis
<1>1. ASSUME NEW t \in XTargets, NEW v \in Velocities, MoveXAxisToTarget(t, v) PROVE Quiet'
  BY <1>1, <1>a, MovesKeepAxes, PositionsAreInt, RequestAssumption
  DEF MoveXAxisToTarget
<1>2. ASSUME NEW p \in XPositions, NEW v \in Velocities, MoveXAxisToPosition(p, v) PROVE Quiet'
  BY <1>2, <1>a, MovesKeepAxes, TargetsOfPositions, MotionAssumption
  DEF MoveXAxisToPosition
<1>3. ASSUME NEW t \in ZTargets, NEW v \in Velocities, MoveZAxisToTarget(t, v) PROVE Quiet'
  BY <1>3, <1>b, MovesKeepAxes, PositionsAreInt, RequestAssumption
  DEF MoveZAxisToTarget
<1>4. ASSUME NEW p \in ZPositions, NEW v \in Velocities, MoveZAxisToPosition(p, v) PROVE Quiet'
  BY <1>4, <1>b, MovesKeepAxes, TargetsOfPositions, MotionAssumption
  DEF MoveZAxisToPosition
<1>5. ASSUME NEW jog \in XJogs, NEW d \in {1, -1}, JogX(jog, d) PROVE Quiet'
  <2>1. xAxis.position + jogDistance(jog, d) \in Int
    BY <1>c, JogsAreInt
  <2>2. PICK p \in Int : p = xAxis.position + jogDistance(jog, d)
    BY <2>1
  <2>3. xAxis' = moveAxisTo(xAxis, xTargetForPosition(p), p)
        /\ UNCHANGED <<zAxis, exceptMotion>>
    BY <1>5, <2>2 DEF JogX
  <2>4. xTargetForPosition(p) \in XAxisTargets
    BY TargetsOfPositions
  <2> QED BY <1>a, <2>2, <2>3, <2>4, MovesKeepAxes
<1>6. ASSUME NEW jog \in ZJogs, NEW d \in {1, -1}, JogZ(jog, d) PROVE Quiet'
  <2>1. zAxis.position + jogDistance(jog, d) \in Int
    BY <1>c, JogsAreInt
  <2>2. PICK p \in Int : p = zAxis.position + jogDistance(jog, d)
    BY <2>1
  <2>3. zAxis' = moveAxisTo(zAxis, zTargetForPosition(p), p)
        /\ UNCHANGED <<xAxis, exceptMotion>>
    BY <1>6, <2>2 DEF JogZ
  <2>4. zTargetForPosition(p) \in ZAxisTargets
    BY TargetsOfPositions
  <2> QED BY <1>b, <2>2, <2>3, <2>4, MovesKeepAxes
<1>7. ASSUME NEW state \in {"Open", "Closed"}, SetClamp(state) PROVE Quiet'
  BY <1>7 DEF SetClamp
<1>8. PrimePump => Quiet'
  BY DEF PrimePump
<1> QED BY <1>1, <1>2, <1>3, <1>4, <1>5, <1>6, <1>7, <1>8 DEF ServiceCommand

LEMMA ManualCommandKeepsQuiet == Quiet /\ ManualCommand => Quiet'
<1> SUFFICES ASSUME Quiet, ManualCommand PROVE Quiet'
  OBVIOUS
<1> USE DEF Quiet, Configured, lifecycle, settings, filling
<1>1. Manual_HomeX => Quiet'
  BY EvaluationIsTyped, HomedAxes DEF Manual_HomeX
<1>5. Manual_HomeZ => Quiet'
  BY EvaluationIsTyped, HomedAxes DEF Manual_HomeZ
<1>2. Manual_StopPump => Quiet'
  BY DEF Manual_StopPump
<1>6. Manual_OpenNozzleValve => Quiet'
  BY DEF Manual_OpenNozzleValve
<1>7. Manual_CloseNozzleValve => Quiet'
  BY DEF Manual_CloseNozzleValve
<1>3. Manual_TriggerInspectionOnce => Quiet'
  <2>1. runInspection \in [fillLevelOk : BOOLEAN, result : InspectionResults,
                           rejectReason : RejectReasons]
    BY DEF runInspection, InspectionResults, RejectReasons
  <2> QED BY <2>1 DEF Manual_TriggerInspectionOnce
<1>4. ASSUME NEW a \in ActuatorIds, Manual_ClearActuatorFault(a) PROVE Quiet'
  <2>1. machineState' \in {"Idle", "Ready", "Faulted", "Aborted"} /\ cyclePhase' = "None"
    BY <1>4, EvaluationIsTyped DEF Manual_ClearActuatorFault
  <2>2. /\ xAxis' \in Axis(XAxisTargets) /\ xAxis'.state \in StillStates
        /\ zAxis' \in Axis(ZAxisTargets) /\ zAxis'.state \in StillStates
    BY <1>4, ServiceKeepsAxes DEF Manual_ClearActuatorFault
  <2>3. /\ faults' \subseteq FaultFlags /\ clamp' \in {clamp, "Open"}
        /\ nozzleValve' \in {nozzleValve, "Closed"} /\ pumpState' \in {pumpState, "Stopped"}
        /\ UNCHANGED <<settings, tankLevel, inspection, batch>>
    BY <1>4 DEF Manual_ClearActuatorFault
  <2> QED BY <2>1, <2>2, <2>3
<1> QED BY <1>1, <1>2, <1>3, <1>4, <1>5, <1>6, <1>7 DEF ManualCommand

LEMMA MaintenanceCommandKeepsQuiet == Quiet /\ MaintenanceCommand => Quiet'
<1> SUFFICES ASSUME Quiet, MaintenanceCommand PROVE Quiet'
  OBVIOUS
<1> USE DEF Quiet, Configured, lifecycle, settings, filling
<1>1. Maintenance_RefillTank => Quiet'
  BY EvaluationIsTyped DEF Maintenance_RefillTank
<1>2. Maintenance_DrainTank => Quiet'
  BY DEF Maintenance_DrainTank
<1>3. Maintenance_CleanNozzle => Quiet'
  BY DEF Maintenance_CleanNozzle
<1>4. ASSUME NEW flag, Maintenance_ResetFault(flag) PROVE Quiet'
  <2>1. faults' \subseteq FaultFlags
    BY <1>4 DEF Maintenance_ResetFault
  <2>2. machineState' \in {"Idle", "Ready", "Faulted", "Aborted"} /\ cyclePhase' = "None"
    BY <1>4, EvaluationIsTyped DEF Maintenance_ResetFault
  <2> QED BY <1>4, <2>1, <2>2 DEF Maintenance_ResetFault
<1>5. Maintenance_CalibrateFillLevelSensor => Quiet'
  BY DEF Maintenance_CalibrateFillLevelSensor
<1>6. Maintenance_SimulateSensorCheck => Quiet'
  <2>1. [fillLevelOk |-> TRUE, result |-> "Pass", rejectReason |-> "None"]
            \in [fillLevelOk : BOOLEAN, result : InspectionResults,
                 rejectReason : RejectReasons]
    BY DEF InspectionResults, RejectReasons
  <2> QED BY <2>1 DEF Maintenance_SimulateSensorCheck
<1>a. ASSUME NEW newX \in Axis(XAxisTargets), NEW newZ \in Axis(ZAxisTargets), NEW s,
             newX.state \in StillStates, newZ.state \in StillStates,
             withAxisSelection(s, newX, newZ), faults' \subseteq faults,
             transitionIdleOrReady(machineState)
      PROVE  Quiet'
  <2>1. machineState' \in {"Idle", "Ready", "Faulted", "Aborted"} /\ cyclePhase' = "None"
    BY <1>a, EvaluationIsTyped
  <2>2. /\ xAxis' \in Axis(XAxisTargets) /\ xAxis'.state \in StillStates
        /\ zAxis' \in Axis(ZAxisTargets) /\ zAxis'.state \in StillStates
    BY <1>a DEF withAxisSelection
  <2> QED BY <1>a, <2>1, <2>2 DEF withAxisSelection
<1>7. ASSUME NEW s \in AxisSelections, Maintenance_HomeAxes(s) PROVE Quiet'
  BY <1>7, <1>a, HomedAxes DEF Maintenance_HomeAxes
<1>8. ASSUME NEW s \in AxisSelections, NEW e \in BOOLEAN, Maintenance_EnableAxes(s, e)
      PROVE  Quiet'
  <2>1. /\ setAxisEnabled(xAxis, e) \in Axis(XAxisTargets)
        /\ setAxisEnabled(xAxis, e).state \in StillStates
        /\ setAxisEnabled(zAxis, e) \in Axis(ZAxisTargets)
        /\ setAxisEnabled(zAxis, e).state \in StillStates
    BY ServiceKeepsAxes
  <2> QED BY <1>8, <1>a, <2>1 DEF Maintenance_EnableAxes
<1>9. ASSUME NEW s \in AxisSelections, Maintenance_ClearAxisFault(s) PROVE Quiet'
  <2>1. /\ clearAxisFault(xAxis) \in Axis(XAxisTargets)
        /\ clearAxisFault(xAxis).state \in StillStates
        /\ clearAxisFault(zAxis) \in Axis(ZAxisTargets)
        /\ clearAxisFault(zAxis).state \in StillStates
    BY ServiceKeepsAxes
  <2> QED BY <1>9, <1>a, <2>1 DEF Maintenance_ClearAxisFault
<1>10. Maintenance_ClearClampFault => Quiet'
  BY EvaluationIsTyped DEF Maintenance_ClearClampFault
<1> QED
  BY <1>1, <1>2, <1>3, <1>4, <1>5, <1>6, <1>7, <1>8, <1>9, <1>10 DEF MaintenanceCommand

LEMMA TickKeepsQuiet == Quiet /\ Tick => Quiet'
<1> SUFFICES ASSUME Quiet, Tick PROVE Quiet'
  OBVIOUS
<1>1. /\ batch' \in [targetCount : Nat, started : BOOLEAN, elapsed : 0..MaxElapsed]
      /\ batch'.targetCount = batch.targetCount
  BY MotionAssumption DEF Tick, Quiet
<1>2. /\ machineState' \in {machineState, "Faulted"} /\ pumpState' = "Stopped"
      /\ nozzleValve' \in {nozzleValve, "Closed"} /\ faults' \subseteq FaultFlags
  BY DEF Tick, Quiet
<1> QED BY <1>1, <1>2 DEF Tick, Quiet, Configured, settings

LEMMA StepKeepsQuiet == Quiet /\ [CellNext]_cellVars => Quiet'
<1>1. Quiet /\ UNCHANGED cellVars => Quiet'
  BY DEF cellVars, Quiet, Configured
<1> QED
  BY <1>1, MachineCommandKeepsQuiet, ServiceCommandKeepsQuiet, ManualCommandKeepsQuiet,
     MaintenanceCommandKeepsQuiet, TickKeepsQuiet DEF CellNext

\* Type invariant of the machine model, for any requests of the clients.
THEOREM CellIsTyped == CellSpec => []CellTypeOK
<1>1. CellSpec => []Quiet
  BY InitQuiet, StepKeepsQuiet, PTL DEF CellSpec
<1>2. Quiet => CellTypeOK
  BY DEF Quiet
<1> QED BY <1>1, <1>2, PTL
-----------------------------------------------------------------------------
(* Every command has one of two shapes, or is one of the five that set the *)
(* machine state themselves.                                               *)

\* It ends in the re-evaluation of the state, without opening the nozzle.
Evaluates ==
    /\ \/ transitionIdleOrReady(machineState)
       \/ machineState = "Ready" /\ transitionIdleOrReady("Idle")
       \/ Machine_Reset
    /\ activeFaults' # {} => activeFaults # {}
    /\ nozzleValve' \in {nozzleValve, "Closed"}
    /\ \/ operatingMode' = operatingMode
       \/ canSetMode(operatingMode')

\* It works in Manual or Maintenance mode and leaves the machine state alone.
Serves ==
    /\ serviceAvailable
    /\ UNCHANGED <<machineState, cyclePhase, operatingMode>>
    /\ activeFaults' # {} => activeFaults # {}
    /\ nozzleValve' \in {nozzleValve, "Closed"} \/ operatingMode = "Manual"

\* It sets the machine state to a value of its own.
Moves ==
    \/ Machine_Start \/ Machine_Pause \/ Machine_Resume \/ Machine_Abort
    \/ Maintenance_DrainTank \/ Tick

\* What decides which faults are active.
LEMMA SameFaults ==
    ASSUME tankLevel' = tankLevel, faults' \subseteq faults
    PROVE  activeFaults' # {} => activeFaults # {}
BY DEF activeFaults, tankEmpty

LEMMA MachineShapes == MachineCommand => Evaluates \/ Moves
<1> USE DEF Evaluates, lifecycle, settings, filling
<1>1. ASSUME NEW c \in Configurations, Machine_Configure(c) PROVE Evaluates
  BY <1>1, SameFaults DEF Machine_Configure
<1>2. ASSUME NEW mode \in OperatingModes, Machine_SetMode(mode) PROVE Evaluates
  <2>1. operatingMode' = mode /\ canSetMode(mode) /\ UNCHANGED <<faults, filling>>
    BY <1>2 DEF Machine_SetMode
  <2>2. \/ transitionIdleOrReady(machineState)
        \/ transitionIdleOrReady("Idle") /\ machineState = "Ready"
    BY <1>2 DEF Machine_SetMode
  <2> QED BY <2>1, <2>2, SameFaults
<1>3. Machine_Home => Evaluates
  BY SameFaults DEF Machine_Home
<1>4. Machine_Reset => Evaluates
  <2>1. Machine_Reset => nozzleValve' = "Closed" /\ operatingMode' = operatingMode
    BY DEF Machine_Reset
  <2>2. Machine_Reset => UNCHANGED <<tankLevel, faults>>
    BY DEF Machine_Reset
  <2> QED BY <2>1, <2>2, SameFaults
<1> QED BY <1>1, <1>2, <1>3, <1>4 DEF MachineCommand, Moves

LEMMA ServiceShapes == ServiceCommand => Serves
<1>1. ServiceCommand => /\ serviceAvailable /\ UNCHANGED <<lifecycle, settings, faults>>
                        /\ tankLevel' = tankLevel /\ nozzleValve' = nozzleValve
  BY DEF ServiceCommand, MoveXAxisToTarget, MoveXAxisToPosition, MoveZAxisToTarget,
         MoveZAxisToPosition, JogX, JogZ, SetClamp, PrimePump, exceptMotion, filling
<1> QED BY <1>1, SameFaults DEF Serves, lifecycle, settings

LEMMA ManualShapes == ManualCommand => Evaluates \/ Serves
<1> USE DEF lifecycle, settings, filling
<1>1. Manual_HomeX => Evaluates
  BY SameFaults DEF Manual_HomeX, Evaluates
<1>2. Manual_HomeZ => Evaluates
  BY SameFaults DEF Manual_HomeZ, Evaluates
<1>3. Manual_StopPump => Serves
  BY SameFaults DEF Manual_StopPump, Serves, serviceAvailable
<1>4. Manual_OpenNozzleValve => Serves
  BY SameFaults DEF Manual_OpenNozzleValve, Serves, serviceAvailable, commandAvailability
<1>5. Manual_CloseNozzleValve => Serves
  BY SameFaults DEF Manual_CloseNozzleValve, Serves, serviceAvailable
<1>6. Manual_TriggerInspectionOnce => Serves
  BY SameFaults DEF Manual_TriggerInspectionOnce, Serves, serviceAvailable
<1>7. ASSUME NEW a \in ActuatorIds, Manual_ClearActuatorFault(a) PROVE Evaluates
  BY <1>7, SameFaults DEF Manual_ClearActuatorFault, Evaluates
<1> QED BY <1>1, <1>2, <1>3, <1>4, <1>5, <1>6, <1>7 DEF ManualCommand

LEMMA MaintenanceShapes == MaintenanceCommand => Evaluates \/ Serves \/ Moves
<1> USE DEF lifecycle, settings, filling
<1>1. Maintenance_RefillTank => Evaluates
  BY DEF Maintenance_RefillTank, Evaluates, activeFaults, tankEmpty, tankCapacityMl,
         emptyThresholdMl
<1>2. Maintenance_CleanNozzle => Serves
  BY SameFaults DEF Maintenance_CleanNozzle, Serves, serviceAvailable
<1>3. ASSUME NEW flag, Maintenance_ResetFault(flag) PROVE Evaluates
  BY <1>3, SameFaults DEF Maintenance_ResetFault, Evaluates
<1>4. Maintenance_CalibrateFillLevelSensor => Serves
  BY SameFaults DEF Maintenance_CalibrateFillLevelSensor, Serves, serviceAvailable
<1>5. Maintenance_SimulateSensorCheck => Serves
  BY SameFaults DEF Maintenance_SimulateSensorCheck, Serves, serviceAvailable
<1>6. ASSUME NEW s \in AxisSelections, Maintenance_HomeAxes(s) PROVE Evaluates
  BY <1>6, SameFaults DEF Maintenance_HomeAxes, withAxisSelection, Evaluates
<1>7. ASSUME NEW s \in AxisSelections, NEW e \in BOOLEAN, Maintenance_EnableAxes(s, e)
      PROVE  Evaluates
  BY <1>7, SameFaults DEF Maintenance_EnableAxes, withAxisSelection, Evaluates
<1>8. ASSUME NEW s \in AxisSelections, Maintenance_ClearAxisFault(s) PROVE Evaluates
  BY <1>8, SameFaults DEF Maintenance_ClearAxisFault, withAxisSelection, Evaluates
<1>9. Maintenance_ClearClampFault => Evaluates
  BY SameFaults DEF Maintenance_ClearClampFault, Evaluates
<1> QED
  BY <1>1, <1>2, <1>3, <1>4, <1>5, <1>6, <1>7, <1>8, <1>9 DEF MaintenanceCommand, Moves

LEMMA Shapes == CellNext => Evaluates \/ Serves \/ Moves
BY MachineShapes, ServiceShapes, ManualShapes, MaintenanceShapes DEF CellNext, Moves
-----------------------------------------------------------------------------
(* Production, recovery and the two action properties.                     *)

LEMMA InitCellInv == CellInit => CellInv
<1> SUFFICES ASSUME CellInit PROVE CellInv
  OBVIOUS
<1>1. machineState = "Idle" /\ nozzleValve = "Closed" /\ operatingMode = "Automatic"
  BY DEF CellInit
<1>2. ProductionIsReady
  BY <1>1 DEF ProductionIsReady
<1>3. Recoverable
  BY <1>1 DEF Recoverable
<1> QED BY <1>2, <1>3, InitQuiet DEF CellInv, Quiet

\* Where the re-evaluation leads from each state, with the faults and readiness
\* the command leaves behind.
LEMMA EvaluationLeads ==
    ASSUME Quiet, Evaluates
    PROVE  /\ cyclePhase' = "None"
           /\ machineState' \in {"Ready", "Idle"} => activeFaults' = {}
           /\ machineState' = "Ready" => readyPreconditionsMet'
           /\ machineState' \in {"Ready", "Idle", "Faulted", "Aborted"}
           /\ machineState' = "Aborted" => machineState = "Aborted"
           /\ machineState \in {"Faulted", "Aborted"} /\ ~Machine_Reset =>
                 machineState' \in {"Faulted", "Aborted"}
BY DEF Quiet, Evaluates, transitionIdleOrReady, Machine_Reset

LEMMA EvaluationKeepsInv == CellInv /\ Quiet' /\ Evaluates => CellInv'
<1> SUFFICES ASSUME CellInv, Quiet', Evaluates PROVE CellInv'
  OBVIOUS
<1> USE EvaluationLeads DEF CellInv, Quiet
<1>1. ProductionIsReady'
  BY DEF ProductionIsReady, readyPreconditionsMet, Configured
<1>2. ASSUME machineState' = "Aborted"
      PROVE  nozzleValve' = "Closed" /\ operatingMode' # "Manual"
  BY <1>2 DEF Recoverable, Evaluates, canSetMode
<1>3. ASSUME machineState' = "Faulted", operatingMode' = "Automatic"
      PROVE  nozzleValve' = "Closed"
  BY <1>3 DEF Recoverable, Evaluates, canSetMode, ProductionIsReady, transitionIdleOrReady,
     Machine_Reset
<1>4. Recoverable'
  BY <1>2, <1>3 DEF Recoverable
<1> QED BY <1>1, <1>4

LEMMA ServingKeepsInv == CellInv /\ Quiet' /\ Serves => CellInv'
<1> SUFFICES ASSUME CellInv, Quiet', Serves PROVE CellInv'
  OBVIOUS
<1> USE DEF CellInv, Quiet, Serves, serviceAvailable, commandAvailability
<1>1. operatingMode \in {"Manual", "Maintenance"}
  OBVIOUS
<1>2. ProductionIsReady'
  BY <1>1 DEF ProductionIsReady
<1>3. Recoverable'
  BY <1>1 DEF Recoverable
<1> QED BY <1>2, <1>3

\* A step that leaves alone what readiness depends on.
LEMMA SameReadiness ==
    ASSUME ProductionIsReady, machineState \in {"Ready", "Running", "Paused"},
           UNCHANGED <<settings, tankLevel, faults, xAxis.homed, zAxis.homed, batch.targetCount>>,
           (cyclePhase' = "WaitingForLoad") = (machineState' # "Ready")
    PROVE  ProductionIsReady'
BY DEF ProductionIsReady, settings, activeFaults, tankEmpty, safetyOk, safety,
       validateRunConfiguration

LEMMA MovingKeepsInv == CellInv /\ Quiet' /\ Moves => CellInv'
<1> SUFFICES ASSUME CellInv, Quiet', Moves PROVE CellInv'
  OBVIOUS
<1> USE DEF CellInv, Quiet, settings, filling
<1>1. CASE Machine_Start
  <2>1. machineState = "Ready" /\ machineState' = "Running" /\ cyclePhase' = "WaitingForLoad"
    BY <1>1 DEF Machine_Start, machineCommandAvailability
  <2>2. xAxis'.homed = xAxis.homed
    BY <1>1, HelpersKeepRest DEF Machine_Start
  <2>3. batch'.targetCount = batch.targetCount
    BY <1>1 DEF Machine_Start
  <2>4. ProductionIsReady'
    BY <1>1, <2>1, <2>2, <2>3, SameReadiness DEF Machine_Start
  <2> QED BY <2>1, <2>4 DEF Recoverable
<1>2. CASE Machine_Pause
  <2>1. machineState = "Running" /\ machineState' = "Paused" /\ cyclePhase' = cyclePhase
    BY <1>2 DEF Machine_Pause, machineCommandAvailability
  <2>2. cyclePhase = "WaitingForLoad"
    BY <2>1 DEF ProductionIsReady
  <2>3. ProductionIsReady'
    BY <1>2, <2>1, <2>2, SameReadiness DEF Machine_Pause
  <2> QED BY <2>1, <2>3 DEF Recoverable
<1>3. CASE Machine_Resume
  <2>1. machineState = "Paused" /\ machineState' = "Running" /\ cyclePhase' = cyclePhase
    BY <1>3 DEF Machine_Resume, machineCommandAvailability
  <2>2. cyclePhase = "WaitingForLoad"
    BY <2>1 DEF ProductionIsReady
  <2>3. ProductionIsReady'
    BY <1>3, <2>1, <2>2, SameReadiness DEF Machine_Resume
  <2> QED BY <2>1, <2>3 DEF Recoverable
<1>4. CASE Machine_Abort
  <2>1. /\ machineState \in {"Running", "Paused"} /\ machineState' = "Aborted"
        /\ nozzleValve' = "Closed" /\ operatingMode' = operatingMode
    BY <1>4 DEF Machine_Abort, machineCommandAvailability
  <2>2. operatingMode = "Automatic"
    BY <2>1 DEF ProductionIsReady
  <2> QED BY <2>1, <2>2 DEF Recoverable, ProductionIsReady
<1>5. CASE Maintenance_DrainTank
  <2>1. machineState' = "Faulted" /\ operatingMode' = "Maintenance"
    BY <1>5 DEF Maintenance_DrainTank, commandAvailability
  <2> QED BY <2>1 DEF Recoverable, ProductionIsReady
<1>6. CASE Tick
  <2>1. machineState = "Running" /\ ~tankEmpty /\ cyclePhase = "WaitingForLoad"
    BY <1>6 DEF Tick, ProductionIsReady
  <2>2. UNCHANGED <<settings, tankLevel, faults, xAxis, zAxis, machineState, cyclePhase>>
    BY <1>6, <2>1 DEF Tick
  <2>3. batch'.targetCount = batch.targetCount
    BY <1>6 DEF Tick
  <2>4. ProductionIsReady'
    BY <2>1, <2>2, <2>3, SameReadiness
  <2> QED BY <2>1, <2>2, <2>4 DEF Recoverable
<1> QED BY <1>1, <1>2, <1>3, <1>4, <1>5, <1>6 DEF Moves

LEMMA StepKeepsCellInv == CellInv /\ [CellNext]_cellVars => CellInv'
<1> SUFFICES ASSUME CellInv, [CellNext]_cellVars PROVE CellInv'
  OBVIOUS
<1>1. Quiet'
  BY StepKeepsQuiet DEF CellInv, Quiet
<1>2. UNCHANGED cellVars => CellInv'
  <2> SUFFICES ASSUME UNCHANGED cellVars PROVE CellInv'
    OBVIOUS
  <2>1. UNCHANGED <<machineState, operatingMode, cyclePhase, configuration, configurationValid,
                    xAxis, zAxis, tankLevel, faults, nozzleValve, batch>>
    BY DEF cellVars
  <2>2. activeFaults' = activeFaults
    BY <2>1 DEF activeFaults, tankEmpty
  <2>3. Recoverable'
    BY <2>1, <2>2 DEF CellInv, Recoverable
  <2>4. ProductionIsReady'
    <3>1. CASE machineState \in {"Ready", "Running", "Paused"}
      <4>1. (cyclePhase = "WaitingForLoad") = (machineState # "Ready")
        BY <3>1 DEF CellInv, ProductionIsReady
      <4>2. (cyclePhase' = "WaitingForLoad") = (machineState' # "Ready")
        BY <2>1, <4>1
      <4> QED BY <2>1, <3>1, <4>2, SameReadiness DEF CellInv, settings
    <3>2. CASE machineState \notin {"Ready", "Running", "Paused"}
      BY <2>1, <3>2 DEF ProductionIsReady
    <3> QED BY <3>1, <3>2
  <2> QED BY <1>1, <2>3, <2>4 DEF CellInv, Quiet
<1> QED BY <1>1, <1>2, Shapes, EvaluationKeepsInv, ServingKeepsInv, MovingKeepsInv

LEMMA SpecKeepsCellInv == CellSpec => []CellInv
BY InitCellInv, StepKeepsCellInv, PTL DEF CellSpec

\* A machine that is ready, producing or paused satisfies every readiness
\* condition, whatever commands came before.
THEOREM OnlyReadyMachinesProduce == CellSpec => []ProductionIsReady
<1>1. CellInv => ProductionIsReady
  BY DEF CellInv
<1> QED BY <1>1, SpecKeepsCellInv, PTL

\* No sequence of commands leads to a stop that no command is accepted in.
THEOREM StopsCanBeLeft == CellSpec => []RecoveryIsOpen
<1>1. CellInv => RecoveryIsOpen
  <2> SUFFICES ASSUME CellInv PROVE RecoveryIsOpen
    OBVIOUS
  <2>1. allAxesStopped /\ pumpState = "Stopped"
    BY DEF CellInv, allAxesStopped, axisStopped, StillStates
  <2>2. safetyOk /\ ~safety.resetRequired
    BY DEF safetyOk, safety
  <2>3. machineState = "Aborted" => machineResetPossible
    BY <2>1, <2>2 DEF CellInv, Recoverable, machineResetPossible
  <2>4. ASSUME machineState = "Faulted", operatingMode = "Automatic"
        PROVE  machineResetPossible /\ recoveryModeChangePossible
    BY <2>1, <2>2, <2>4 DEF CellInv, Recoverable, machineResetPossible,
       recoveryModeChangePossible
  <2>5. ASSUME machineState = "Faulted", operatingMode # "Automatic"
        PROVE  commandAvailability("Manual") \/ commandAvailability("Maintenance")
    BY <2>2, <2>5 DEF CellInv, commandAvailability
  <2> QED BY <2>3, <2>4, <2>5 DEF RecoveryIsOpen
<1> QED BY <1>1, SpecKeepsCellInv, PTL

\* A stopped machine leaves its stop only by Reset, and only without a fault.
THEOREM StopsAreLeftByReset == CellSpec => OnlyResetLeavesAStop
<1>1. CellInv /\ [CellNext]_cellVars => [LeavesAStop => Machine_Reset /\ activeFaults = {}]_cellVars
  <2> SUFFICES ASSUME CellInv, CellNext, LeavesAStop PROVE Machine_Reset /\ activeFaults = {}
    OBVIOUS
  <2> USE DEF LeavesAStop
  <2>1. ~Serves
    BY DEF Serves
  <2>2. ~Moves
    BY DEF Moves, Machine_Start, Machine_Pause, Machine_Resume, Machine_Abort,
       Maintenance_DrainTank, Tick, machineCommandAvailability
  <2>3. Evaluates
    BY <2>1, <2>2, Shapes
  <2>4. Quiet
    BY DEF CellInv, Quiet
  <2>5. Machine_Reset /\ activeFaults' = {}
    BY <2>3, <2>4, EvaluationLeads
  <2>6. activeFaults' = activeFaults
    BY <2>5 DEF Machine_Reset, activeFaults, tankEmpty
  <2> QED BY <2>5, <2>6
<1> QED BY <1>1, SpecKeepsCellInv, PTL DEF CellSpec, OnlyResetLeavesAStop
\* Only the start of a batch and homing X by itself or before Z move the X axis with
\* the Z axis away from Safe, for any requests and starting from any position.
THEOREM InterlockBreaks == CellSpec => OnlyStartAndHomingBreakInterlock
<1> DEFINE Guarded == XMoves => zIsSafe \/ Machine_Home \/ Machine_Start \/ HomesXUnguarded
<1>1. Quiet /\ [CellNext]_cellVars => [Guarded]_cellVars
  <2> SUFFICES ASSUME Quiet, CellNext PROVE Guarded
    OBVIOUS
  <2> USE DEF Quiet, XMoves, settings, exceptMotion
  <2>1. MachineCommand => Guarded
    <3>1. Machine_Abort => xAxis'.position = xAxis.position
      BY HelpersKeepRest DEF Machine_Abort
    <3> QED BY <3>1 DEF MachineCommand, Machine_Configure, Machine_SetMode,
                        Machine_Pause, Machine_Resume, Machine_Reset
  <2>2. ServiceCommand => Guarded
    BY DEF ServiceCommand, MoveXAxisToTarget, MoveXAxisToPosition, MoveZAxisToTarget,
           MoveZAxisToPosition, JogX, JogZ, SetClamp, PrimePump
  <2>3. ManualCommand => Guarded
    <3>1. ASSUME NEW a \in ActuatorIds, Manual_ClearActuatorFault(a)
          PROVE  xAxis'.position = xAxis.position
      BY <3>1, HelpersKeepRest DEF Manual_ClearActuatorFault
    <3> QED BY <3>1 DEF ManualCommand, HomesXUnguarded, Manual_HomeZ, Manual_StopPump,
               Manual_OpenNozzleValve, Manual_CloseNozzleValve, Manual_TriggerInspectionOnce
  <2>4. MaintenanceCommand => Guarded
    <3>1. ASSUME NEW s \in AxisSelections, Maintenance_HomeAxes(s)
          PROVE  xAxis' = xAxis \/ s \in {"XAxis", "Both"}
      BY <3>1 DEF Maintenance_HomeAxes, withAxisSelection, selectsX
    <3>2. ASSUME NEW s \in AxisSelections, NEW e \in BOOLEAN, Maintenance_EnableAxes(s, e)
          PROVE  xAxis'.position = xAxis.position
      BY <3>2, HelpersKeepRest DEF Maintenance_EnableAxes, withAxisSelection
    <3>3. ASSUME NEW s \in AxisSelections, Maintenance_ClearAxisFault(s)
          PROVE  xAxis'.position = xAxis.position
      BY <3>3, HelpersKeepRest DEF Maintenance_ClearAxisFault, withAxisSelection
    <3> QED
      BY <3>1, <3>2, <3>3
      DEF MaintenanceCommand, HomesXUnguarded, Maintenance_RefillTank, Maintenance_DrainTank,
          Maintenance_CleanNozzle, Maintenance_ResetFault, Maintenance_CalibrateFillLevelSensor,
          Maintenance_SimulateSensorCheck, Maintenance_ClearClampFault
  <2>5. Tick => Guarded
    BY DEF Tick
  <2> QED BY <2>1, <2>2, <2>3, <2>4, <2>5 DEF CellNext
<1>2. CellSpec => []Quiet
  BY InitQuiet, StepKeepsQuiet, PTL DEF CellSpec
<1> QED BY <1>1, <1>2, PTL DEF CellSpec, OnlyStartAndHomingBreakInterlock
-----------------------------------------------------------------------------
(* The panel.  It says the truth because the machine state cannot lag      *)
(* behind the faults, and an axis cannot lag behind its target.            *)

\* What the axis is named to be at, it is at.
AtTarget(axis, positions) ==
    axis.currentTarget # "None" =>
        /\ axis.currentTarget \in DOMAIN positions
        /\ axis.position = positions[axis.currentTarget]

AtTargets == AtTarget(xAxis, xAxisTargetPositions) /\ AtTarget(zAxis, zAxisTargetPositions)

\* A fault has stopped the machine, unless it was there before any command.
FaultsShow ==
    activeFaults # {} =>
        \/ machineState = "Faulted"
        \/ /\ machineState = "Idle" /\ operatingMode = "Automatic"
           /\ ~configurationValid /\ ~xAxis.homed /\ ~zAxis.homed

\* An inspection has a reason exactly if it failed.
Reasoned == inspection.fillLevelOk = (inspection.rejectReason = "None")

PanelInv == AtTargets /\ FaultsShow /\ Reasoned

\* Moving an axis to a position names the target that is there, if there is
\* one; what enables or clears it leaves both alone.
LEMMA AxesAreAtTargets ==
    /\ \A t \in XAxisTargets \ {"None"}, axis \in Axis(XAxisTargets) :
          AtTarget(moveAxisTo(axis, t, xAxisTargetPositions[t]), xAxisTargetPositions)
    /\ \A t \in ZAxisTargets \ {"None"}, axis \in Axis(ZAxisTargets) :
          AtTarget(moveAxisTo(axis, t, zAxisTargetPositions[t]), zAxisTargetPositions)
    /\ \A p : \A axis \in Axis(XAxisTargets) :
          AtTarget(moveAxisTo(axis, xTargetForPosition(p), p), xAxisTargetPositions)
    /\ \A p : \A axis \in Axis(ZAxisTargets) :
          AtTarget(moveAxisTo(axis, zTargetForPosition(p), p), zAxisTargetPositions)
    /\ AtTarget(homedX, xAxisTargetPositions) /\ AtTarget(homedZ, zAxisTargetPositions)
<1>1. ASSUME NEW targets, NEW axis \in Axis(targets), NEW t, NEW p
      PROVE  moveAxisTo(axis, t, p).currentTarget = t /\ moveAxisTo(axis, t, p).position = p
  BY DEF Axis, moveAxisTo
<1>2. /\ DOMAIN xAxisTargetPositions = XAxisTargets \ {"None"}
      /\ DOMAIN zAxisTargetPositions = ZAxisTargets \ {"None"}
  BY DEF XAxisTargets, ZAxisTargets, xAxisTargetPositions, zAxisTargetPositions
<1>3. ASSUME NEW p, xTargetForPosition(p) # "None"
      PROVE  /\ xTargetForPosition(p) \in XAxisTargets \ {"None"}
             /\ xAxisTargetPositions[xTargetForPosition(p)] = p
  BY <1>3 DEF xTargetForPosition
<1>4. ASSUME NEW p, zTargetForPosition(p) # "None"
      PROVE  /\ zTargetForPosition(p) \in ZAxisTargets \ {"None"}
             /\ zAxisTargetPositions[zTargetForPosition(p)] = p
  BY <1>4 DEF zTargetForPosition, ZAxisTargets
<1>5. AtTarget(homedX, xAxisTargetPositions) /\ AtTarget(homedZ, zAxisTargetPositions)
  BY <1>2 DEF AtTarget, homedX, homedZ, homeAxis, XAxisTargets, ZAxisTargets
<1>6. ASSUME NEW t \in XAxisTargets \ {"None"}, NEW axis \in Axis(XAxisTargets)
      PROVE  AtTarget(moveAxisTo(axis, t, xAxisTargetPositions[t]), xAxisTargetPositions)
  BY <1>1, <1>2 DEF AtTarget
<1>7. ASSUME NEW t \in ZAxisTargets \ {"None"}, NEW axis \in Axis(ZAxisTargets)
      PROVE  AtTarget(moveAxisTo(axis, t, zAxisTargetPositions[t]), zAxisTargetPositions)
  BY <1>1, <1>2 DEF AtTarget
<1>8. ASSUME NEW p, NEW axis \in Axis(XAxisTargets)
      PROVE  AtTarget(moveAxisTo(axis, xTargetForPosition(p), p), xAxisTargetPositions)
  BY <1>1, <1>2, <1>3 DEF AtTarget
<1>9. ASSUME NEW p, NEW axis \in Axis(ZAxisTargets)
      PROVE  AtTarget(moveAxisTo(axis, zTargetForPosition(p), p), zAxisTargetPositions)
  BY <1>1, <1>2, <1>4 DEF AtTarget
<1> QED BY <1>5, <1>6, <1>7, <1>8, <1>9

\* What enables, disables or clears an axis leaves it where it is.
LEMMA ServiceKeepsTargets ==
    ASSUME NEW targets, NEW axis \in Axis(targets), NEW positions, AtTarget(axis, positions)
    PROVE  /\ AtTarget(clearAxisFault(axis), positions)
           /\ \A e \in BOOLEAN : AtTarget(setAxisEnabled(axis, e), positions)
BY DEF Axis, AtTarget, clearAxisFault, setAxisEnabled

LEMMA StepKeepsTargets == Quiet /\ AtTargets /\ [CellNext]_cellVars => AtTargets'
<1> SUFFICES ASSUME Quiet, AtTargets, [CellNext]_cellVars PROVE AtTargets'
  OBVIOUS
<1> USE DEF Quiet, AtTargets, settings, exceptMotion
<1>0. ASSUME UNCHANGED <<xAxis, zAxis>> PROVE AtTargets'
  BY <1>0 DEF AtTarget
<1>a. ASSUME AtTarget(xAxis', xAxisTargetPositions), AtTarget(zAxis', zAxisTargetPositions)
      PROVE  AtTargets'
  BY <1>a DEF AtTarget
<1>b. /\ AtTarget(clearAxisFault(xAxis), xAxisTargetPositions)
      /\ AtTarget(clearAxisFault(zAxis), zAxisTargetPositions)
      /\ \A e \in BOOLEAN : /\ AtTarget(setAxisEnabled(xAxis, e), xAxisTargetPositions)
                            /\ AtTarget(setAxisEnabled(zAxis, e), zAxisTargetPositions)
  BY ServiceKeepsTargets
<1>1. MachineCommand => AtTargets'
  <2>1. Machine_Home => AtTargets'
    BY <1>a, AxesAreAtTargets DEF Machine_Home
  <2>2. Machine_Start => AtTargets'
    <3>1. "Load" \in XAxisTargets \ {"None"}
      BY DEF XAxisTargets
    <3>2. AtTarget(moveAxisTo(xAxis, "Load", xAxisTargetPositions["Load"]), xAxisTargetPositions)
      BY <3>1, AxesAreAtTargets
    <3> QED BY <1>a, <3>2 DEF Machine_Start
  <2>3. Machine_Abort => AtTargets'
    BY <1>a, <1>b DEF Machine_Abort
  <2> QED BY <1>0, <2>1, <2>2, <2>3
          DEF MachineCommand, Machine_Configure, Machine_SetMode, Machine_Pause,
              Machine_Resume, Machine_Reset
<1>2. ServiceCommand => AtTargets'
  <2>1. ASSUME NEW t \in XTargets, NEW v \in Velocities, MoveXAxisToTarget(t, v)
        PROVE  AtTargets'
    BY <2>1, <1>a, AxesAreAtTargets, RequestAssumption DEF MoveXAxisToTarget
  <2>2. ASSUME NEW p, NEW v, MoveXAxisToPosition(p, v) PROVE AtTargets'
    BY <2>2, <1>a, AxesAreAtTargets DEF MoveXAxisToPosition
  <2>3. ASSUME NEW t \in ZTargets, NEW v \in Velocities, MoveZAxisToTarget(t, v)
        PROVE  AtTargets'
    BY <2>3, <1>a, AxesAreAtTargets, RequestAssumption DEF MoveZAxisToTarget
  <2>4. ASSUME NEW p, NEW v, MoveZAxisToPosition(p, v) PROVE AtTargets'
    BY <2>4, <1>a, AxesAreAtTargets DEF MoveZAxisToPosition
  <2>5. ASSUME NEW jog, NEW d, JogX(jog, d) PROVE AtTargets'
    BY <2>5, <1>a, AxesAreAtTargets DEF JogX
  <2>6. ASSUME NEW jog, NEW d, JogZ(jog, d) PROVE AtTargets'
    BY <2>6, <1>a, AxesAreAtTargets DEF JogZ
  <2> QED BY <1>0, <2>1, <2>2, <2>3, <2>4, <2>5, <2>6 DEF ServiceCommand, SetClamp, PrimePump
<1>3. ManualCommand => AtTargets'
  <2>1. Manual_HomeX \/ Manual_HomeZ => AtTargets'
    BY <1>a, AxesAreAtTargets DEF Manual_HomeX, Manual_HomeZ
  <2>2. ASSUME NEW a \in ActuatorIds, Manual_ClearActuatorFault(a) PROVE AtTargets'
    BY <2>2, <1>a, <1>b DEF Manual_ClearActuatorFault
  <2> QED BY <1>0, <2>1, <2>2
          DEF ManualCommand, Manual_StopPump, Manual_OpenNozzleValve,
              Manual_CloseNozzleValve, Manual_TriggerInspectionOnce
<1>4. MaintenanceCommand => AtTargets'
  <2>1. ASSUME NEW s \in AxisSelections, Maintenance_HomeAxes(s) PROVE AtTargets'
    BY <2>1, <1>a, AxesAreAtTargets DEF Maintenance_HomeAxes, withAxisSelection
  <2>2. ASSUME NEW s \in AxisSelections, NEW e \in BOOLEAN, Maintenance_EnableAxes(s, e)
        PROVE  AtTargets'
    BY <2>2, <1>a, <1>b DEF Maintenance_EnableAxes, withAxisSelection
  <2>3. ASSUME NEW s \in AxisSelections, Maintenance_ClearAxisFault(s) PROVE AtTargets'
    BY <2>3, <1>a, <1>b DEF Maintenance_ClearAxisFault, withAxisSelection
  <2> QED BY <1>0, <2>1, <2>2, <2>3
          DEF MaintenanceCommand, Maintenance_RefillTank, Maintenance_DrainTank,
              Maintenance_CleanNozzle, Maintenance_ResetFault,
              Maintenance_CalibrateFillLevelSensor, Maintenance_SimulateSensorCheck,
              Maintenance_ClearClampFault
<1>5. Tick \/ UNCHANGED cellVars => AtTargets'
  BY <1>0 DEF Tick, cellVars
<1> QED BY <1>1, <1>2, <1>3, <1>4, <1>5 DEF CellNext

LEMMA StepKeepsReason == Reasoned /\ [CellNext]_cellVars => Reasoned'
<1> SUFFICES ASSUME Reasoned, [CellNext]_cellVars PROVE Reasoned'
  OBVIOUS
<1>1. \/ inspection' = inspection \/ inspection' = runInspection
      \/ inspection' = [fillLevelOk |-> TRUE, result |-> "Pass", rejectReason |-> "None"]
  <2>1. MachineCommand \/ ServiceCommand \/ Tick \/ UNCHANGED cellVars => inspection' = inspection
    BY DEF MachineCommand, Machine_Configure, Machine_SetMode, Machine_Home, Machine_Start,
           Machine_Pause, Machine_Resume, Machine_Abort, Machine_Reset,
           ServiceCommand, MoveXAxisToTarget, MoveXAxisToPosition, MoveZAxisToTarget,
           MoveZAxisToPosition, JogX, JogZ, SetClamp, PrimePump, exceptMotion, Tick, cellVars
  <2>2. ManualCommand => inspection' = inspection \/ inspection' = runInspection
    BY DEF ManualCommand, Manual_HomeX, Manual_HomeZ, Manual_StopPump,
           Manual_OpenNozzleValve, Manual_CloseNozzleValve, Manual_TriggerInspectionOnce,
           Manual_ClearActuatorFault
  <2>3. MaintenanceCommand =>
          \/ inspection' = inspection
          \/ inspection' = [fillLevelOk |-> TRUE, result |-> "Pass", rejectReason |-> "None"]
    BY DEF MaintenanceCommand, Maintenance_RefillTank, Maintenance_DrainTank,
           Maintenance_CleanNozzle, Maintenance_ResetFault,
           Maintenance_CalibrateFillLevelSensor, Maintenance_SimulateSensorCheck,
           Maintenance_HomeAxes, Maintenance_EnableAxes, Maintenance_ClearAxisFault,
           withAxisSelection, Maintenance_ClearClampFault
  <2> QED BY <2>1, <2>2, <2>3 DEF CellNext
<1>2. runInspection.fillLevelOk = (runInspection.rejectReason = "None")
  BY DEF runInspection
<1>3. CASE inspection' = inspection
  BY <1>3 DEF Reasoned
<1>4. CASE inspection' = runInspection
  BY <1>2, <1>4 DEF Reasoned
<1>5. CASE inspection' = [fillLevelOk |-> TRUE, result |-> "Pass", rejectReason |-> "None"]
  BY <1>5 DEF Reasoned
<1> QED BY <1>1, <1>3, <1>4, <1>5

\* A fault that appears, or outlives a command, stops the machine.
LEMMA StepKeepsFaults == CellInv /\ FaultsShow /\ [CellNext]_cellVars => FaultsShow'
<1> SUFFICES ASSUME CellInv, FaultsShow, [CellNext]_cellVars, activeFaults' # {}
             PROVE  FaultsShow'
  BY DEF FaultsShow
<1>1. CASE Evaluates
  BY <1>1 DEF Evaluates, Machine_Reset, transitionIdleOrReady, FaultsShow
<1>2. CASE Serves
  <2>1. machineState = "Faulted"
    BY <1>2 DEF Serves, serviceAvailable, commandAvailability, FaultsShow
  <2> QED BY <1>2, <2>1 DEF Serves, FaultsShow
<1>3. CASE Maintenance_DrainTank
  BY <1>3 DEF Maintenance_DrainTank, FaultsShow
<1>4. CASE Machine_Start \/ Machine_Pause \/ Machine_Resume \/ Machine_Abort \/ Tick
  <2>1. machineState \in {"Ready", "Running", "Paused"}
    BY <1>4 DEF Machine_Start, Machine_Pause, Machine_Resume, Machine_Abort, Tick,
                machineCommandAvailability
  <2>2. activeFaults = {} /\ ~tankEmpty
    BY <2>1 DEF CellInv, ProductionIsReady
  <2>3. UNCHANGED <<tankLevel, faults>>
    BY <1>4, <2>2 DEF Machine_Start, Machine_Pause, Machine_Resume, Machine_Abort, Tick, filling
  <2> QED BY <2>2, <2>3 DEF activeFaults, tankEmpty
<1>5. CASE UNCHANGED cellVars
  BY <1>5 DEF cellVars, FaultsShow, activeFaults, tankEmpty
<1> QED BY <1>1, <1>2, <1>3, <1>4, <1>5, Shapes DEF Moves

LEMMA SpecKeepsPanelInv == CellSpec => []PanelInv
<1>1. CellInit => PanelInv
  <2> SUFFICES ASSUME CellInit PROVE PanelInv
    OBVIOUS
  <2>1. AtTargets
    BY DEF CellInit, AtTargets, AtTarget, newAxis
  <2>2. FaultsShow
    BY DEF CellInit, FaultsShow, newAxis
  <2>3. Reasoned
    BY DEF CellInit, Reasoned, notInspected
  <2> QED BY <2>1, <2>2, <2>3 DEF PanelInv
<1>2. CellInv /\ PanelInv /\ [CellNext]_cellVars => PanelInv'
  BY StepKeepsTargets, StepKeepsFaults, StepKeepsReason DEF PanelInv, CellInv, Quiet
<1> QED BY <1>1, <1>2, SpecKeepsCellInv, PTL DEF CellSpec

\* The code that is shown is that of an active fault.
LEMMA PrimaryFaultIsActive ==
    ASSUME CellTypeOK, activeFaults # {}
    PROVE  primaryFaultCode \in activeFaults
<1> DEFINE active == {i \in 1..Len(faultOrder) : faultOrder[i] \in activeFaults}
<1>1. Len(faultOrder) = 9
  BY DEF faultOrder
<1>2. active \subseteq 1..9 /\ active # {}
  <2>1. activeFaults \subseteq FaultFlags
    BY DEF activeFaults
  <2>2. \A f \in FaultFlags : \E i \in 1..9 : faultOrder[i] = f
    BY DEF faultOrder
  <2>3. PICK f \in activeFaults : TRUE
    OBVIOUS
  <2>4. PICK i \in 1..9 : faultOrder[i] = f
    BY <2>1, <2>2, <2>3
  <2> QED BY <1>1, <2>3, <2>4
<1>3. ASSUME NEW S \in SUBSET (1..9), S # {}
      PROVE  \E i \in S : \A j \in S : i <= j
  <2> SUFFICES ASSUME \A i \in S : \E j \in S : ~(i <= j) PROVE FALSE
    OBVIOUS
  <2>1. 1 \notin S
    OBVIOUS
  <2>2. 2 \notin S
    BY <2>1
  <2>3. 3 \notin S
    BY <2>1, <2>2
  <2>4. 4 \notin S
    BY <2>1, <2>2, <2>3
  <2>5. 5 \notin S
    BY <2>1, <2>2, <2>3, <2>4
  <2>6. 6 \notin S
    BY <2>1, <2>2, <2>3, <2>4, <2>5
  <2>7. 7 \notin S
    BY <2>1, <2>2, <2>3, <2>4, <2>5, <2>6
  <2>8. 8 \notin S
    BY <2>1, <2>2, <2>3, <2>4, <2>5, <2>6, <2>7
  <2>9. 9 \notin S
    BY <2>1, <2>2, <2>3, <2>4, <2>5, <2>6, <2>7, <2>8
  <2>10. PICK i \in S : TRUE
    BY <1>3
  <2>11. i \in 1..9
    OBVIOUS
  <2> QED BY <2>1, <2>2, <2>3, <2>4, <2>5, <2>6, <2>7, <2>8, <2>9, <2>11
<1>4. \E i \in active : \A j \in active : i <= j
  <2>1. PICK S : S = active
    OBVIOUS
  <2>2. S \in SUBSET (1..9) /\ S # {}
    BY <1>2, <2>1
  <2>3. \E i \in S : \A j \in S : i <= j
    BY ONLY <1>3, <2>2
  <2> QED BY <2>1, <2>3
<1> QED BY <1>4 DEF primaryFaultCode

\* The panel an operator reads is honest after any sequence of commands, with
\* any configurations, targets, positions and jogs.
THEOREM PanelsAreHonest == CellSpec => []PanelIsHonest
<1>1. CellInv /\ PanelInv => PanelIsHonest
  <2> SUFFICES ASSUME CellInv, PanelInv PROVE PanelIsHonest
    OBVIOUS
  <2>1. machineState \in {"Idle", "Ready", "Running", "Paused", "Aborted", "Faulted"}
    BY DEF CellInv
  <2>2. ASSUME activeFaults # {}
        PROVE  /\ machineState = "Faulted" \/ AsStarted(StateBranch)
               /\ highestSeverity = "Fault"
               /\ primaryFaultCode \in activeFaults
    <3>1. highestSeverity = "Fault"
      BY <2>1, <2>2 DEF highestSeverity
    <3>2. primaryFaultCode \in activeFaults
      BY <2>2, PrimaryFaultIsActive DEF CellInv
    <3> QED BY <2>2, <3>1, <3>2 DEF PanelInv, FaultsShow, AsStarted, StateBranch
  <2>3. ASSUME machineState \in {"Ready", "Running"}
        PROVE  /\ xAxis.homed /\ zAxis.homed /\ configurationValid
               /\ Cardinality(activeFaults) = 0 /\ operatingMode = "Automatic"
               /\ batch.targetCount > 0 /\ configuration.pumpRateMlPerSecond > 0
               /\ ~tankEmpty
    <3>1. ProductionIsReady
      BY DEF CellInv
    <3>2. activeFaults = {} /\ validateRunConfiguration(configuration)
      BY <2>3, <3>1 DEF ProductionIsReady
    <3>3. Cardinality(activeFaults) = 0
      BY ONLY <3>2, FS_EmptySet
    <3>4. configuration.batchSize > 0 /\ configuration.pumpRateMlPerSecond > 0
      BY <3>2 DEF validateRunConfiguration
    <3> QED BY <2>3, <3>1, <3>3, <3>4 DEF ProductionIsReady
  <2>4. ~(machineCommandAvailability("Reset") /\ machineCommandAvailability("Home"))
        /\ (machineCommandAvailability("Reset") =>
              machineState \in {"Faulted", "SafetyStopped", "Aborted"})
    BY DEF machineCommandAvailability, machineResetPossible
  <2>5. ~(commandAvailability("Manual") /\ commandAvailability("Maintenance"))
    BY DEF commandAvailability
  <2>6. /\ inspection.fillLevelOk = (inspection.rejectReason = "None")
        /\ \A axis \in {AxisBranch(xAxis, xAxisTargetPositions),
                        AxisBranch(zAxis, zAxisTargetPositions)} :
              axis.CurrentTarget # "None" => axis.CurrentTarget \in axis.At
    BY DEF PanelInv, Reasoned, AtTargets, AtTarget, AxisBranch, atPosition
  <2> DEFINE panel == DemoFillingCell
  <2>7. /\ panel.State = StateBranch /\ panel.Catalog = CatalogBranch
        /\ panel.Motion = MotionBranch /\ panel.Filling = FillingBranch
        /\ panel.Inspection = InspectionBranch
        /\ panel.OperatorFeedback = OperatorFeedbackBranch
        /\ panel.Production = ProductionBranch /\ panel.Diagnostics = DiagnosticsBranch
    BY DEF DemoFillingCell
  <2> DEFINE lights == OperatorFeedbackBranch
  <2>8. /\ lights.Red = (machineState \in {"Faulted", "SafetyStopped", "Aborted"})
        /\ lights.Yellow = (machineState \in {"Idle", "Paused"} \/ activeWarnings # {})
        /\ lights.Green = (machineState \in {"Ready", "Running"})
        /\ lights.Blue = (operatingMode = "Maintenance")
        /\ machineState = "Faulted" => lights.Buzzer = "Continuous"
    BY DEF OperatorFeedbackBranch
  <2>9. /\ CatalogBranch["Reset"] = machineCommandAvailability("Reset")
        /\ CatalogBranch["Home"] = machineCommandAvailability("Home")
        /\ CatalogBranch["Manual"] = commandAvailability("Manual")
        /\ CatalogBranch["Maintenance"] = commandAvailability("Maintenance")
    BY DEF CatalogBranch, MachineKinds
  <2>10. panel.State.FaultActive =>
           /\ (lights.Red /\ lights.Buzzer = "Continuous") \/ AsStarted(panel.State)
           /\ panel.Diagnostics.HighestSeverity = "Fault"
           /\ panel.Diagnostics.PrimaryFaultCode \in panel.Diagnostics.Faults
    <3>1. panel.State.FaultActive = (activeFaults # {})
      BY <2>7 DEF StateBranch
    <3>2. /\ panel.Diagnostics.HighestSeverity = highestSeverity
          /\ panel.Diagnostics.PrimaryFaultCode = primaryFaultCode
          /\ panel.Diagnostics.Faults = activeFaults
      BY <2>7 DEF DiagnosticsBranch
    <3> HIDE DEF panel, lights
    <3> QED BY <2>2, <2>7, <2>8, <3>1, <3>2
  <2>11. lights.Green =>
           /\ panel.State.Homed /\ panel.State.ConfigurationValid
           /\ panel.Diagnostics.ActiveFaultCount = 0 /\ ~lights.Blue
           /\ panel.Production.RemainingCount > 0
           /\ panel.Filling.RateMlPerSecond > 0 /\ ~panel.Filling.Empty
    <3>1. /\ panel.State.Homed = (xAxis.homed /\ zAxis.homed)
          /\ panel.State.ConfigurationValid = configurationValid
      BY <2>7 DEF StateBranch
    <3>2. panel.Diagnostics.ActiveFaultCount = Cardinality(activeFaults)
      BY <2>7 DEF DiagnosticsBranch
    <3>3. panel.Production.RemainingCount = batch.targetCount
      BY <2>7 DEF ProductionBranch
    <3>4. /\ panel.Filling.RateMlPerSecond = configuration.pumpRateMlPerSecond
          /\ panel.Filling.Empty = tankEmpty
      BY <2>7 DEF FillingBranch
    <3> HIDE DEF panel, lights
    <3> QED BY <2>3, <2>8, <3>1, <3>2, <3>3, <3>4
  <2>12. ~(lights.Red /\ lights.Green) /\ (lights.Red \/ lights.Green \/ lights.Yellow)
    BY <2>1, <2>8
  <2>13. /\ ~(panel.Catalog["Manual"] /\ panel.Catalog["Maintenance"])
         /\ panel.Catalog["Reset"] => lights.Red /\ ~panel.Catalog["Home"]
    BY <2>4, <2>5, <2>7, <2>8, <2>9
  <2>14. /\ panel.Inspection.FillLevelOk = (panel.Inspection.RejectReason = "None")
         /\ \A axis \in {panel.Motion.XAxis, panel.Motion.ZAxis} :
               axis.CurrentTarget # "None" => axis.CurrentTarget \in axis.At
    BY <2>6, <2>7 DEF InspectionBranch, MotionBranch
  <2> HIDE DEF panel, lights
  <2>15. panel.OperatorFeedback = lights
    BY <2>7 DEF lights
  <2> QED
    BY <2>10, <2>11, <2>12, <2>13, <2>14, <2>15 DEF PanelIsHonest, panel
<1> QED BY <1>1, SpecKeepsCellInv, SpecKeepsPanelInv, PTL

\* A set of naturals that is not empty has a smallest element.
LEMMA SmallestExists ==
    ASSUME NEW S, S \subseteq Nat, S # {}
    PROVE  (CHOOSE i \in S : \A j \in S : i <= j) \in S
<1>1. \E x \in S : \A y \in S : ~(<<y, x>> \in OpToRel(<, Nat))
  BY NatLessThanWellFounded, WFMin
<1>2. PICK x \in S : \A y \in S : ~(<<y, x>> \in OpToRel(<, Nat))
  BY <1>1
<1>3. \A y \in S : x <= y
  <2> SUFFICES ASSUME NEW y \in S, ~(x <= y) PROVE FALSE
    OBVIOUS
  <2>1. y < x /\ y \in Nat /\ x \in Nat
    OBVIOUS
  <2>2. <<y, x>> \in Nat \X Nat /\ <<y, x>>[1] < <<y, x>>[2]
    BY <2>1
  <2>3. <<y, x>> \in OpToRel(<, Nat)
    BY <2>2, Zenon DEF OpToRel
  <2> QED BY <2>3, <1>2
<1> QED BY <1>3

\* Removing an element gives a sequence over the same set, one shorter.
LEMMA RemoveAtProperties ==
    ASSUME NEW T, NEW s \in Seq(T), NEW i \in 1..Len(s)
    PROVE  RemoveAt(s, i) \in Seq(T) /\ Len(RemoveAt(s, i)) = Len(s) - 1
<1> DEFINE a == SubSeq(s, 1, i - 1)
           b == SubSeq(s, i + 1, Len(s))
<1>1. a \in Seq(T) /\ Len(a) = i - 1
  BY DEF a
<1>2. b \in Seq(T) /\ Len(b) = Len(s) - i
  OBVIOUS
<1>3. RemoveAt(s, i) = a \o b
  BY DEF RemoveAt
<1> HIDE DEF a, b
<1>4. a \o b \in Seq(T) /\ Len(a \o b) = Len(a) + Len(b)
  BY <1>1, <1>2, ConcatProperties
<1> QED BY <1>1, <1>2, <1>3, <1>4

-----------------------------------------------------------------------------
(* The server.                                                             *)

\* Entries that agree with what the server has executed, and always will: their
\* id is seen, so that it is never executed again.
TrueEntries ==
    {e \in Entries :
        /\ e.state \in {"Completed", "Rejected"}
        /\ e.commandId \in seenCommandIds
        /\ e.state = "Completed" => executed[e.commandId] = 1
        /\ e.statusCode \in RejectionCodes \ {"DuplicateCommandId"} =>
              executed[e.commandId] = 0}

TrueBuffers ==
    {b \in [revision : Nat, entries : Seq(TrueEntries)] : Len(b.entries) <= Capacity}

ServerInv ==
    /\ history \in Seq(TrueBuffers) /\ history # <<>>
    /\ seenCommandIds \subseteq CommandIds
    /\ machine \in Nat /\ telemetryRevision = machine /\ ticks \in 0..MaxTicks
    /\ executed \in [CommandIds -> {0, 1}]
    /\ \A id \in CommandIds \ seenCommandIds : executed[id] = 0

LEMMA InitServerInv == InitServer => ServerInv
<1> SUFFICES ASSUME InitServer PROVE ServerInv
  OBVIOUS
<1>1. [revision |-> 0, entries |-> <<>>] \in TrueBuffers
  BY CommandStatusAssumption DEF TrueBuffers
<1> QED BY <1>1, CommandStatusAssumption DEF InitServer, ServerInv

\* The current buffer is one of the values it has had.
LEMMA StatusIsTrue ==
    ASSUME ServerInv
    PROVE  status \in TrueBuffers /\ status \in Range(history)
<1>1. Len(history) \in Nat \ {0} /\ DOMAIN history = 1..Len(history)
  BY DEF ServerInv
<1>2. Len(history) \in DOMAIN history
  BY <1>1
<1> QED BY <1>2, ElementOfSeq DEF ServerInv, status, Last, Range

LEMMA NothingIsActive == ASSUME ServerInv PROVE ~hasActiveCommand
<1>1. status.entries \in Seq(TrueEntries)
  BY StatusIsTrue DEF TrueBuffers
<1>2. \A i \in DOMAIN status.entries : status.entries[i] \in TrueEntries
  BY <1>1
<1> QED BY <1>2 DEF hasActiveCommand, isTerminalCommandState, TrueEntries

LEMMA EvictionKeepsEntries ==
    ASSUME NEW T, NEW entries \in Seq(T), Len(entries) <= Capacity
    PROVE  Evicted(entries) \in Seq(T) /\ Len(Evicted(entries)) < Capacity
<1> DEFINE terminal == {i \in DOMAIN entries : isTerminalCommandState(entries[i].state)}
           oldest == CHOOSE i \in terminal : \A j \in terminal : i <= j
<1>1. CASE Len(entries) < Capacity
  BY <1>1 DEF Evicted
<1>2. CASE ~(Len(entries) < Capacity) /\ terminal = {}
  <2>1. Len(entries) = Capacity /\ entries # <<>>
    BY <1>2, CommandStatusAssumption
  <2>2. Tail(entries) \in Seq(T) /\ Len(Tail(entries)) = Len(entries) - 1
    BY <2>1, HeadTailProperties
  <2>3. Evicted(entries) = Tail(entries)
    BY <1>2 DEF Evicted
  <2> QED BY <2>1, <2>2, <2>3, CommandStatusAssumption
<1>3. CASE ~(Len(entries) < Capacity) /\ terminal # {}
  <2>1. terminal \subseteq Nat /\ terminal \subseteq 1..Len(entries)
    OBVIOUS
  <2>2. oldest \in terminal
    BY <2>1, <1>3, SmallestExists
  <2>3. Evicted(entries) = RemoveAt(entries, oldest)
    BY <1>3 DEF Evicted
  <2>4. RemoveAt(entries, oldest) \in Seq(T)
        /\ Len(RemoveAt(entries, oldest)) = Len(entries) - 1
    BY <2>1, <2>2, RemoveAtProperties
  <2>5. Len(entries) = Capacity
    BY <1>3, CommandStatusAssumption
  <2> HIDE DEF terminal, oldest
  <2> QED BY <2>3, <2>4, <2>5, CommandStatusAssumption
<1> QED BY <1>1, <1>2, <1>3

\* What one command changes: entries stay true, and the new one is.
LEMMA ObservingKeepsTruth ==
    ASSUME ServerInv, NEW request \in Requests, NEW outcome \in {"Completed", "Unavailable"},
           observeSubmit(request, outcome)
    PROVE  ServerInv' /\ TrueEntries \subseteq TrueEntries' /\ TrueBuffers \subseteq TrueBuffers'
           /\ Range(history) \subseteq Range(history')
<1> DEFINE verdict == Verdict(request, outcome)
           entry == [sequence |-> Len(history), commandId |-> request.id,
                     state |-> IF verdict = "Completed" THEN "Completed" ELSE "Rejected",
                     statusCode |-> verdict]
           ran == IF verdict = "Completed" THEN 1 ELSE 0
           buffer == [revision |-> status.revision + 1,
                      entries |-> Append(Evicted(status.entries), entry)]
<1>1. request.id \in CommandIds
  BY DEF Requests
<1>2. /\ verdict \in RejectionCodes \cup {"Completed"}
      /\ request.id \in seenCommandIds => verdict = "DuplicateCommandId"
      /\ request.id \notin seenCommandIds => verdict # "DuplicateCommandId"
  BY NothingIsActive DEF Verdict, RejectionCodes
<1>3. /\ history' = Append(history, buffer)
      /\ seenCommandIds' = seenCommandIds \cup {request.id}
      /\ machine' = machine + ran /\ telemetryRevision' = telemetryRevision + ran
      /\ executed' = [executed EXCEPT ![request.id] = @ + ran] /\ ticks' = ticks
  BY DEF observeSubmit
<1> HIDE DEF verdict
<1>4. /\ ran = 1 => request.id \notin seenCommandIds /\ executed[request.id] = 0
      /\ ran \in {0, 1}
  BY <1>1, <1>2 DEF ServerInv, RejectionCodes
<1>5. /\ executed' \in [CommandIds -> {0, 1}]
      /\ \A id \in CommandIds : id # request.id \/ ran = 0 => executed'[id] = executed[id]
      /\ executed'[request.id] = executed[request.id] + ran
  BY <1>1, <1>3, <1>4 DEF ServerInv
<1>6. TrueEntries \subseteq TrueEntries'
  <2> SUFFICES ASSUME NEW e \in TrueEntries PROVE e \in TrueEntries'
    OBVIOUS
  <2>1. e.commandId \in seenCommandIds /\ e \in Entries
    BY DEF TrueEntries
  <2>2. executed'[e.commandId] = executed[e.commandId]
    BY <2>1, <1>4, <1>5 DEF ServerInv
  <2> QED BY <2>1, <2>2, <1>3 DEF TrueEntries
<1>7. TrueBuffers \subseteq TrueBuffers'
  BY <1>6, SeqMonotonic DEF TrueBuffers
<1>8. entry \in TrueEntries'
  <2>1. Len(history) \in Nat
    BY DEF ServerInv
  <2>2. entry \in Entries
    BY <2>1, <1>1, <1>2 DEF Entries, CommandStates
  <2>3. executed[request.id] \in {0, 1} /\ (ran = 1 => executed[request.id] = 0)
    BY <1>1, <1>4 DEF ServerInv
  <2>4. verdict \in RejectionCodes \ {"DuplicateCommandId"} =>
          request.id \notin seenCommandIds /\ ran = 0
    BY <1>2 DEF RejectionCodes
  <2>5. entry.state = "Completed" => executed'[request.id] = 1
    <3>1. entry.state = "Completed" => verdict = "Completed"
      OBVIOUS
    <3>2. verdict = "Completed" => ran = 1
      OBVIOUS
    <3>3. ran = 1 => executed'[request.id] = 1
      <4> HIDE DEF ran
      <4> QED BY <1>5, <2>3
    <3> QED BY <3>1, <3>2, <3>3
  <2>6. verdict \in RejectionCodes \ {"DuplicateCommandId"} => executed'[request.id] = 0
    BY <1>1, <1>5, <2>4 DEF ServerInv
  <2> QED BY <2>2, <2>5, <2>6, <1>3 DEF TrueEntries
<1>9. buffer \in TrueBuffers'
  <2>1. status \in TrueBuffers'
    BY <1>7, StatusIsTrue
  <2>2. status.entries \in Seq(TrueEntries') /\ Len(status.entries) <= Capacity
        /\ status.revision + 1 \in Nat
    BY <2>1 DEF TrueBuffers
  <2>3. Evicted(status.entries) \in Seq(TrueEntries') /\ Len(Evicted(status.entries)) < Capacity
    BY <2>2, EvictionKeepsEntries
  <2>4. Append(Evicted(status.entries), entry) \in Seq(TrueEntries')
        /\ Len(Append(Evicted(status.entries), entry)) <= Capacity
    BY <2>3, <1>8, AppendProperties, CommandStatusAssumption
  <2> HIDE DEF entry
  <2> QED BY <2>2, <2>4 DEF TrueBuffers
<1> HIDE DEF entry, buffer, ran
<1>10. history' \in Seq(TrueBuffers') /\ history' # <<>>
  BY <1>3, <1>7, <1>9, SeqMonotonic, AppendProperties DEF ServerInv
<1>11. Range(history) \subseteq Range(history')
  BY <1>3 DEF Range, ServerInv
<1>12. \A id \in CommandIds \ seenCommandIds' : executed'[id] = 0
  BY <1>1, <1>3, <1>5 DEF ServerInv
<1> QED BY <1>1, <1>3, <1>4, <1>5, <1>6, <1>7, <1>10, <1>11, <1>12 DEF ServerInv

\* The timer changes the machine and its revision together.
LEMMA TickKeepsTruth ==
    ASSUME ServerInv, ServerTick
    PROVE  ServerInv' /\ TrueEntries' = TrueEntries /\ TrueBuffers' = TrueBuffers
<1>1. /\ UNCHANGED <<history, seenCommandIds, executed>>
      /\ machine' = machine + 1 /\ telemetryRevision' = telemetryRevision + 1
      /\ ticks < MaxTicks /\ ticks' = ticks + 1
  BY DEF ServerTick
<1>2. TrueEntries' = TrueEntries
  BY <1>1 DEF TrueEntries
<1>3. TrueBuffers' = TrueBuffers
  BY <1>2 DEF TrueBuffers
<1> QED BY <1>1, <1>2, <1>3, CommandStatusAssumption DEF ServerInv

LEMMA SameServer ==
    ASSUME ServerInv, UNCHANGED serverVars
    PROVE  ServerInv' /\ TrueEntries' = TrueEntries /\ TrueBuffers' = TrueBuffers
BY DEF serverVars, ServerInv, TrueEntries, TrueBuffers

-----------------------------------------------------------------------------
(* The clients.                                                            *)

\* What a submit can find, and what it can return.
Finds(s) == {e \in TrueEntries : e.commandId = idOf(s)} \cup {None}
Results(s) == Finds(s) \cup [error : Errors]
Phases == {"idle", "checked", "writing", "done"} \cup Awaiting

Writes(s, c) == layerOf[s] = c /\ pc(s) = "writing"

LayerInv == layer \in [Layers -> [statusRef : TrueBuffers, open : BOOLEAN,
                                  submitInProgress : BOOLEAN]]
SubmitInv ==
    /\ submit = [s \in Submits |-> submit[s]]
    /\ \A s \in Submits :
          submit[s] \in [pc : Phases, found : Finds(s), result : Results(s)]

\* At most one submit of a layer writes, and the flag is set while it does.
FlagInv ==
    \A c \in Layers :
       /\ layer[c].submitInProgress => \E s \in Submits : Writes(s, c)
       /\ \A s \in Submits : Writes(s, c) => layer[c].submitInProgress
       /\ \A s, t \in Submits : Writes(s, c) /\ Writes(t, c) => s = t

TelemetryInv ==
    /\ telemetry \in [reading : BOOLEAN, open : BOOLEAN, failed : BOOLEAN,
                      snapshot : [revision : Nat, machine : Nat]]
    /\ telemetry.snapshot.machine = telemetry.snapshot.revision

ClientInv ==
    /\ LayerInv /\ SubmitInv /\ FlagInv /\ TelemetryInv
    /\ wire \in [Layers -> Seq(Submits)]
    /\ failures \in 0..MaxFaults

DemoInv == ServerInv /\ ClientInv

LEMMA RequestsAreTyped ==
    \A s \in Submits : layerOf[s] \in Layers /\ requestOf[s] \in Requests
                       /\ idOf(s) \in CommandIds
BY DemoClientAssumption DEF idOf, Requests

\* None and errors are no entries.
LEMMA EntriesAreNoErrors ==
    None \notin Entries /\ \A e \in Errors : [error |-> e] \notin Entries
<1>1. \A e \in Entries : "sequence" \in DOMAIN e
  BY DEF Entries
<1>2. "sequence" \notin DOMAIN None
  BY DEF None
<1>3. \A e \in Errors : "sequence" \notin DOMAIN [error |-> e]
  OBVIOUS
<1> QED BY <1>1, <1>2, <1>3

\* A lookup in a true buffer finds nothing or a true entry with the id of s.
LEMMA LookupIsTrue ==
    ASSUME NEW s \in Submits, NEW buffer \in TrueBuffers
    PROVE  Lookup(s, buffer) \in Finds(s)
<1> DEFINE found == {i \in DOMAIN buffer.entries : buffer.entries[i].commandId = idOf(s)}
           first == CHOOSE i \in found : \A j \in found : i <= j
<1>1. buffer.entries \in Seq(TrueEntries)
  BY DEF TrueBuffers
<1>2. CASE found = {}
  BY <1>2 DEF Lookup, Finds
<1>3. CASE found # {}
  <2>1. found \subseteq Nat
    BY <1>1
  <2>2. first \in found
    BY <2>1, <1>3, SmallestExists
  <2>3. Lookup(s, buffer) = buffer.entries[first]
    BY <1>3 DEF Lookup
  <2>4. buffer.entries[first] \in TrueEntries /\ buffer.entries[first].commandId = idOf(s)
    <3>1. \A i \in DOMAIN buffer.entries : buffer.entries[i] \in TrueEntries
      BY <1>1
    <3>2. first \in DOMAIN buffer.entries /\ buffer.entries[first].commandId = idOf(s)
      BY <2>2
    <3> HIDE DEF first
    <3> QED BY <3>1, <3>2
  <2> QED BY <2>3, <2>4 DEF Finds
<1> QED BY <1>2, <1>3

\* What was true to a client stays so when the server goes on.
LEMMA TruthGrows ==
    ASSUME TrueEntries \subseteq TrueEntries', TrueBuffers \subseteq TrueBuffers',
           LayerInv, SubmitInv, UNCHANGED <<layer, submit>>
    PROVE  LayerInv' /\ SubmitInv'
<1>1. LayerInv'
  BY DEF LayerInv
<1>2. \A s \in Submits : Finds(s) \subseteq Finds(s)' /\ Results(s) \subseteq Results(s)'
  BY DEF Finds, Results, idOf
<1>3. SubmitInv'
  BY <1>2 DEF SubmitInv
<1> QED BY <1>1, <1>3

LEMMA InitDemoInv == Init => DemoInv
<1> SUFFICES ASSUME Init PROVE DemoInv
  OBVIOUS
<1>1. ServerInv /\ status \in TrueBuffers
  BY InitServerInv, StatusIsTrue DEF Init
<1>2. LayerInv
  BY <1>1 DEF LayerInv, Init, InitClients
<1>3. SubmitInv
  BY DEF SubmitInv, Init, InitClients, Finds, Results, Phases
<1>4. FlagInv
  BY DEF FlagInv, Writes, pc, Init, InitClients
<1>5. TelemetryInv
  BY <1>1 DEF TelemetryInv, Init, InitClients, makeSnapshot, ServerInv
<1>6. wire \in [Layers -> Seq(Submits)] /\ failures \in 0..MaxFaults
  BY DemoClientAssumption DEF Init, InitClients
<1> QED BY <1>1, <1>2, <1>3, <1>4, <1>5, <1>6 DEF DemoInv, ClientInv

-----------------------------------------------------------------------------
(* What a step does to one submit, and to the flag.                        *)

\* The step changes the record of s and no other.
OnlyChanges(s) ==
    /\ submit' = [t \in Submits |-> submit'[t]]
    /\ \A t \in Submits \ {s} : submit'[t] = submit[t]

LEMMA SubmitChanges ==
    ASSUME SubmitInv, NEW s \in Submits, OnlyChanges(s), TrueEntries' = TrueEntries,
           submit'[s] \in [pc : Phases, found : Finds(s), result : Results(s)]
    PROVE  SubmitInv'
<1>1. \A t \in Submits : Finds(t)' = Finds(t) /\ Results(t)' = Results(t)
  BY DEF Finds, Results, idOf
<1> QED BY <1>1 DEF SubmitInv, OnlyChanges

\* The same submits write and the flags stay.
LEMMA SameWriters ==
    ASSUME FlagInv,
           \A c \in Layers : layer'[c].submitInProgress = layer[c].submitInProgress,
           \A s \in Submits : submit'[s].pc = "writing" <=> submit[s].pc = "writing"
    PROVE  FlagInv'
<1>1. \A s \in Submits, c \in Layers : Writes(s, c)' <=> Writes(s, c)
  BY DEF Writes, pc
<1> QED BY <1>1 DEF FlagInv

\* A writer stops and gives the flag back.
LEMMA ReleasingKeepsFlag ==
    ASSUME FlagInv, LayerInv, NEW s \in Submits, pc(s) = "writing", layer' = Released(s),
           OnlyChanges(s), submit'[s].pc # "writing", TrueBuffers' = TrueBuffers
    PROVE  FlagInv' /\ LayerInv'
<1>1. layerOf[s] \in Layers
  BY RequestsAreTyped
<1>2. LayerInv'
  BY <1>1 DEF LayerInv, Released
<1>3. /\ layer'[layerOf[s]].submitInProgress = FALSE
      /\ \A c \in Layers \ {layerOf[s]} : layer'[c] = layer[c]
  BY <1>1 DEF LayerInv, Released
<1>4. Writes(s, layerOf[s])
  BY DEF Writes
<1>5. \A t \in Submits : ~Writes(t, layerOf[s])'
  BY <1>1, <1>4 DEF FlagInv, Writes, pc, OnlyChanges
<1>6. \A t \in Submits, c \in Layers \ {layerOf[s]} : Writes(t, c)' <=> Writes(t, c)
  BY DEF Writes, pc, OnlyChanges
<1>7. FlagInv'
  BY <1>3, <1>5, <1>6 DEF FlagInv
<1> QED BY <1>2, <1>7

\* Ending a submit leaves a result and nothing found.
LEMMA EndingIsTyped ==
    ASSUME SubmitInv, NEW s \in Submits, NEW result \in Results(s), Ends(s, result)
    PROVE  /\ OnlyChanges(s) /\ submit'[s].pc = "done"
           /\ submit'[s] \in [pc : Phases, found : Finds(s), result : Results(s)]
<1>1. submit'[s] = [submit[s] EXCEPT !.pc = "done", !.result = result, !.found = None]
  BY DEF Ends, SubmitInv
<1>2. submit[s] \in [pc : Phases, found : Finds(s), result : Results(s)]
  BY DEF SubmitInv
<1>3. None \in Finds(s) /\ "done" \in Phases
  BY DEF Finds, Phases
<1> QED BY <1>1, <1>2, <1>3 DEF Ends, SubmitInv, OnlyChanges

LEMMA ErrorsAreResults == \A s \in Submits, e \in Errors : [error |-> e] \in Results(s)
BY DEF Results

-----------------------------------------------------------------------------
(* One leaf for each action of the clients.                                *)

LEMMA BeginKeeps == ASSUME DemoInv, NEW s \in Submits, Begin(s) PROVE DemoInv'
<1> USE DEF DemoInv, ClientInv
<1>1. ServerInv' /\ TrueEntries' = TrueEntries /\ TrueBuffers' = TrueBuffers
  BY SameServer DEF Begin
<1>2. submit[s] \in [pc : Phases, found : Finds(s), result : Results(s)] /\ submit = [t \in Submits |-> submit[t]]
  BY DEF SubmitInv
<1>3. /\ OnlyChanges(s) /\ pc(s) = "idle" /\ submit'[s].pc \in {"done", "checked"}
      /\ submit'[s] \in [pc : Phases, found : Finds(s), result : Results(s)]
  BY <1>2, ErrorsAreResults DEF Begin, OnlyChanges, Phases, Errors, Results, Finds
<1>4. SubmitInv'
  BY <1>1, <1>3, SubmitChanges
<1>5. FlagInv' /\ LayerInv' /\ TelemetryInv'
  BY <1>1, <1>3, SameWriters DEF Begin, OnlyChanges, pc, LayerInv, TelemetryInv
<1> QED BY <1>1, <1>4, <1>5 DEF Begin

LEMMA AcquireKeeps == ASSUME DemoInv, NEW s \in Submits, Acquire(s) PROVE DemoInv'
<1> USE DEF DemoInv, ClientInv
<1> DEFINE c == layerOf[s]
<1>1. ServerInv' /\ TrueEntries' = TrueEntries /\ TrueBuffers' = TrueBuffers
  BY SameServer DEF Acquire
<1>2. submit[s] \in [pc : Phases, found : Finds(s), result : Results(s)] /\ submit = [t \in Submits |-> submit[t]]
  BY DEF SubmitInv
<1>3. c \in Layers /\ pc(s) = "checked" /\ TelemetryInv' /\ failures' \in 0..MaxFaults
  BY RequestsAreTyped DEF Acquire, TelemetryInv
<1>4. CASE layer[c].submitInProgress
  <2>1. Fails(s, "CommandSubmissionInProgress") /\ UNCHANGED <<layer, wire>>
    BY <1>4 DEF Acquire
  <2>2. /\ OnlyChanges(s) /\ submit'[s].pc = "done"
        /\ submit'[s] \in [pc : Phases, found : Finds(s), result : Results(s)]
    BY <2>1, EndingIsTyped, ErrorsAreResults DEF Fails, Errors
  <2>3. FlagInv' /\ LayerInv'
    BY <1>1, <1>3, <2>1, <2>2, SameWriters DEF OnlyChanges, pc, LayerInv
  <2>4. SubmitInv'
    BY <1>1, <2>2, SubmitChanges
  <2> QED BY <1>1, <1>3, <2>1, <2>3, <2>4
<1>5. CASE ~layer[c].submitInProgress
  <2>1. /\ layer' = [layer EXCEPT ![c].submitInProgress = TRUE]
        /\ wire' = [wire EXCEPT ![c] = Append(@, s)]
        /\ submit' = [submit EXCEPT ![s].pc = "writing"]
    BY <1>5 DEF Acquire
  <2>2. /\ OnlyChanges(s) /\ submit'[s].pc = "writing"
        /\ submit'[s] \in [pc : Phases, found : Finds(s), result : Results(s)]
    BY <2>1, <1>2 DEF OnlyChanges, Phases
  <2>3. LayerInv'
    BY <1>1, <1>3, <2>1 DEF LayerInv
  <2>9. wire' \in [Layers -> Seq(Submits)]
    BY <1>3, <2>1, AppendProperties
  <2>4. /\ layer'[c].submitInProgress
        /\ \A d \in Layers \ {c} : layer'[d] = layer[d]
    BY <1>3, <2>1 DEF LayerInv
  <2>5. Writes(s, c)' /\ \A t \in Submits \ {s} : ~Writes(t, c)'
    BY <1>3, <1>5, <2>2 DEF FlagInv, Writes, pc, OnlyChanges
  <2>6. \A t \in Submits, d \in Layers \ {c} : Writes(t, d)' <=> Writes(t, d)
    BY <2>2 DEF Writes, pc, OnlyChanges
  <2>7. FlagInv'
    BY <2>4, <2>5, <2>6 DEF FlagInv
  <2>8. SubmitInv'
    BY <1>1, <2>2, SubmitChanges
  <2> QED BY <1>1, <1>3, <2>3, <2>7, <2>8, <2>9 DEF Acquire
<1> QED BY <1>4, <1>5

LEMMA ServeWriteKeeps == ASSUME DemoInv, NEW c \in Layers, ServeWrite(c) PROVE DemoInv'
<1> USE DEF DemoInv, ClientInv
<1>1. wire[c] # <<>> /\ wire[c] \in Seq(Submits) /\ wire' = [wire EXCEPT ![c] = Tail(@)]
  BY DEF ServeWrite
<1>2. Head(wire[c]) \in Submits /\ Tail(wire[c]) \in Seq(Submits)
  BY <1>1, HeadTailProperties
<1>3. PICK outcome \in {"Completed", "Unavailable"} :
          observeSubmit(requestOf[Head(wire[c])], outcome)
  BY DEF ServeWrite
<1>4. ServerInv' /\ TrueEntries \subseteq TrueEntries' /\ TrueBuffers \subseteq TrueBuffers'
  BY <1>2, <1>3, RequestsAreTyped, ObservingKeepsTruth
<1>5. LayerInv' /\ SubmitInv'
  BY <1>4, TruthGrows DEF ServeWrite
<1>6. FlagInv' /\ TelemetryInv'
  BY SameWriters DEF ServeWrite, TelemetryInv
<1> QED BY <1>1, <1>2, <1>4, <1>5, <1>6 DEF ServeWrite

LEMMA AnsweredKeeps == ASSUME DemoInv, NEW s \in Submits, Answered(s) PROVE DemoInv'
<1> USE DEF DemoInv, ClientInv
<1>1. ServerInv' /\ TrueEntries' = TrueEntries /\ TrueBuffers' = TrueBuffers
  BY SameServer DEF Answered
<1>2. submit[s] \in [pc : Phases, found : Finds(s), result : Results(s)] /\ submit = [t \in Submits |-> submit[t]]
  BY DEF SubmitInv
<1>3. Lookup(s, layer[layerOf[s]].statusRef) \in Finds(s)
  BY RequestsAreTyped, LookupIsTrue DEF LayerInv
<1>4. /\ OnlyChanges(s) /\ submit'[s].pc = "observing"
      /\ submit'[s] \in [pc : Phases, found : Finds(s), result : Results(s)]
  BY <1>2, <1>3 DEF Answered, OnlyChanges, Phases, Awaiting
<1>5. FlagInv' /\ LayerInv'
  BY <1>1, <1>4, ReleasingKeepsFlag DEF Answered
<1>6. SubmitInv' /\ TelemetryInv'
  BY <1>1, <1>4, SubmitChanges DEF Answered, TelemetryInv
<1> QED BY <1>1, <1>5, <1>6 DEF Answered

LEMMA WriteFailsKeeps == ASSUME DemoInv, NEW s \in Submits, WriteFails(s) PROVE DemoInv'
<1> USE DEF DemoInv, ClientInv
<1>1. ServerInv' /\ TrueEntries' = TrueEntries /\ TrueBuffers' = TrueBuffers
  BY SameServer DEF WriteFails
<1>2. /\ OnlyChanges(s) /\ submit'[s].pc = "done"
      /\ submit'[s] \in [pc : Phases, found : Finds(s), result : Results(s)]
  BY EndingIsTyped, ErrorsAreResults DEF WriteFails, Fails, Errors
<1>3. FlagInv' /\ LayerInv'
  BY <1>1, <1>2, ReleasingKeepsFlag DEF WriteFails
<1>4. SubmitInv' /\ TelemetryInv'
  BY <1>1, <1>2, SubmitChanges DEF WriteFails, TelemetryInv
<1>5. wire' \in [Layers -> Seq(Submits)]
  <2> DEFINE c == layerOf[s]
  <2>1. c \in Layers /\ wire[c] \in Seq(Submits)
    BY RequestsAreTyped
  <2>2. ASSUME NEW i \in DOMAIN wire[c] PROVE RemoveAt(wire[c], i) \in Seq(Submits)
    BY <2>1, RemoveAtProperties
  <2> QED BY <2>1, <2>2 DEF WriteFails
<1> QED BY <1>1, <1>3, <1>4, <1>5, DemoClientAssumption DEF WriteFails, Fault

LEMMA InterruptKeeps == ASSUME DemoInv, NEW s \in Submits, Interrupt(s) PROVE DemoInv'
<1> USE DEF DemoInv, ClientInv
<1>1. ServerInv' /\ TrueEntries' = TrueEntries /\ TrueBuffers' = TrueBuffers
  BY SameServer DEF Interrupt
<1>2. /\ OnlyChanges(s) /\ submit'[s].pc = "done"
      /\ submit'[s] \in [pc : Phases, found : Finds(s), result : Results(s)]
  BY EndingIsTyped, ErrorsAreResults DEF Interrupt, Fails, Errors
<1>3. FlagInv' /\ LayerInv'
  <2>1. CASE pc(s) = "writing"
    BY <1>1, <1>2, <2>1, ReleasingKeepsFlag DEF Interrupt
  <2>2. CASE pc(s) # "writing"
    BY <1>1, <1>2, <2>2, SameWriters DEF Interrupt, OnlyChanges, pc, LayerInv
  <2> QED BY <2>1, <2>2
<1>4. SubmitInv' /\ TelemetryInv'
  BY <1>1, <1>2, SubmitChanges DEF Interrupt, TelemetryInv
<1> QED BY <1>1, <1>3, <1>4, DemoClientAssumption DEF Interrupt, Fault

LEMMA WaitKeeps ==
    ASSUME DemoInv, NEW s \in Submits, Observed(s) \/ Terminal(s) \/ Timeout(s)
    PROVE  DemoInv'
<1> USE DEF DemoInv, ClientInv
<1>1. /\ UNCHANGED <<serverVars, layer, wire, telemetry>>
      /\ pc(s) \in Awaiting /\ failures' \in 0..MaxFaults
  BY DemoClientAssumption DEF Observed, Terminal, Timeout, Fault, Awaiting
<1>2. ServerInv' /\ TrueEntries' = TrueEntries /\ TrueBuffers' = TrueBuffers
  BY <1>1, SameServer
<1>3. submit[s] \in [pc : Phases, found : Finds(s), result : Results(s)] /\ submit = [t \in Submits |-> submit[t]]
  BY DEF SubmitInv
<1>4. /\ OnlyChanges(s) /\ submit'[s].pc \in {"waiting", "done"}
      /\ submit'[s] \in [pc : Phases, found : Finds(s), result : Results(s)]
  <2>1. CASE Observed(s)
    <3>1. Lookup(s, layer[layerOf[s]].statusRef) \in Finds(s)
      BY RequestsAreTyped, LookupIsTrue DEF LayerInv
    <3> QED BY <2>1, <3>1, <1>3 DEF Observed, OnlyChanges, Phases, Awaiting
  <2>2. CASE Terminal(s)
    <3>1. submit[s].found \in Results(s)
      BY <1>3 DEF Results
    <3> QED BY <2>2, <3>1, EndingIsTyped DEF Terminal
  <2>3. CASE Timeout(s)
    BY <2>3, EndingIsTyped, ErrorsAreResults DEF Timeout, Fails, Errors
  <2> QED BY <2>1, <2>2, <2>3
<1>5. FlagInv'
  BY <1>1, <1>4, SameWriters DEF OnlyChanges, pc, Awaiting
<1>6. SubmitInv' /\ LayerInv' /\ TelemetryInv'
  BY <1>1, <1>2, <1>4, SubmitChanges DEF LayerInv, TelemetryInv
<1> QED BY <1>1, <1>2, <1>5, <1>6

LEMMA DeliverStatusKeeps ==
    ASSUME DemoInv, NEW c \in Layers, NEW next \in Range(history), DeliverStatus(c, next)
    PROVE  DemoInv'
<1> USE DEF DemoInv, ClientInv
<1>1. ServerInv' /\ TrueEntries' = TrueEntries /\ TrueBuffers' = TrueBuffers
  BY SameServer DEF DeliverStatus
<1>2. next \in TrueBuffers
  BY DEF ServerInv, Range
<1>3. LayerInv' /\ \A d \in Layers : layer'[d].submitInProgress = layer[d].submitInProgress
  BY <1>1, <1>2 DEF LayerInv, DeliverStatus
<1>4. \A s \in Submits :
         /\ submit'[s] \in [pc : Phases, found : Finds(s), result : Results(s)]
         /\ submit'[s].pc = submit[s].pc
  <2> SUFFICES ASSUME NEW s \in Submits
               PROVE  /\ submit'[s] \in [pc : Phases, found : Finds(s), result : Results(s)]
                      /\ submit'[s].pc = submit[s].pc
    OBVIOUS
  <2>1. submit'[s] \in {submit[s], [submit[s] EXCEPT !.found = Lookup(s, next)]}
    BY DEF DeliverStatus, Awake
  <2>2. Lookup(s, next) \in Finds(s)
    BY <1>2, LookupIsTrue
  <2>3. submit[s] \in [pc : Phases, found : Finds(s), result : Results(s)]
    BY DEF SubmitInv
  <2> QED BY <2>1, <2>2, <2>3
<1>5. SubmitInv'
  <2>1. \A t \in Submits : Finds(t)' = Finds(t) /\ Results(t)' = Results(t)
    BY <1>1 DEF Finds, Results, idOf
  <2>2. submit' = [t \in Submits |-> submit'[t]]
    BY DEF DeliverStatus, Awake
  <2> QED BY <1>4, <2>1, <2>2 DEF SubmitInv
<1>6. FlagInv' /\ TelemetryInv'
  BY <1>3, <1>4, SameWriters DEF DeliverStatus, TelemetryInv
<1> QED BY <1>1, <1>3, <1>5, <1>6 DEF DeliverStatus

LEMMA StreamFailsKeeps ==
    ASSUME DemoInv, NEW c \in Layers, StatusStreamFails(c) PROVE DemoInv'
<1> USE DEF DemoInv, ClientInv
<1>1. ServerInv' /\ TrueEntries' = TrueEntries /\ TrueBuffers' = TrueBuffers
  BY SameServer DEF StatusStreamFails
<1>2. LayerInv' /\ \A d \in Layers : layer'[d].submitInProgress = layer[d].submitInProgress
  BY <1>1 DEF LayerInv, StatusStreamFails
<1>3. SubmitInv'
  BY <1>1, <1>2, TruthGrows DEF SubmitInv, StatusStreamFails, Finds, Results, idOf
<1>4. FlagInv' /\ TelemetryInv'
  BY <1>2, SameWriters DEF StatusStreamFails, TelemetryInv
<1> QED BY <1>1, <1>2, <1>3, <1>4, DemoClientAssumption DEF StatusStreamFails, Fault

TelemetryStep ==
    \/ \E revision \in 0..telemetryRevision : TakeRevision(revision)
    \/ SnapshotRead \/ SnapshotReadFails \/ TelemetryStreamFails

LEMMA TelemetryKeeps == ASSUME DemoInv, TelemetryStep PROVE DemoInv'
<1> USE DEF DemoInv, ClientInv
<1>1. UNCHANGED <<serverVars, layer, submit, wire>> /\ failures' \in 0..MaxFaults
  BY DemoClientAssumption DEF TelemetryStep, TakeRevision, SnapshotRead, SnapshotReadFails,
     TelemetryStreamFails, Fault
<1>2. ServerInv' /\ TrueEntries' = TrueEntries /\ TrueBuffers' = TrueBuffers
  BY <1>1, SameServer
<1>3. LayerInv' /\ SubmitInv' /\ FlagInv'
  BY <1>1, <1>2, TruthGrows, SameWriters
<1>4. TelemetryInv'
  <2> USE DEF TelemetryInv
  <2>1. ASSUME NEW revision, TakeRevision(revision) PROVE TelemetryInv'
    BY <2>1 DEF TakeRevision
  <2>2. SnapshotRead => TelemetryInv'
    <3>1. makeSnapshot \in [revision : Nat, machine : Nat]
          /\ makeSnapshot.machine = makeSnapshot.revision
      BY DEF makeSnapshot, ServerInv
    <3> QED BY <3>1 DEF SnapshotRead
  <2>3. SnapshotReadFails => TelemetryInv'
    BY DEF SnapshotReadFails
  <2>4. TelemetryStreamFails => TelemetryInv'
    BY DEF TelemetryStreamFails
  <2> QED BY <2>1, <2>2, <2>3, <2>4 DEF TelemetryStep
<1> QED BY <1>1, <1>2, <1>3, <1>4

LEMMA TickKeeps == ASSUME DemoInv, ServerTicks PROVE DemoInv'
<1> USE DEF DemoInv, ClientInv
<1>1. ServerInv' /\ TrueEntries' = TrueEntries /\ TrueBuffers' = TrueBuffers
  BY TickKeepsTruth DEF ServerTicks
<1>2. LayerInv' /\ SubmitInv' /\ FlagInv' /\ TelemetryInv'
  BY <1>1, TruthGrows, SameWriters DEF ServerTicks, clientVars, TelemetryInv
<1> QED BY <1>1, <1>2 DEF ServerTicks, clientVars

LEMMA StutterKeeps == ASSUME DemoInv, UNCHANGED vars PROVE DemoInv'
<1> USE DEF DemoInv, ClientInv, vars, clientVars
<1>1. ServerInv' /\ TrueEntries' = TrueEntries /\ TrueBuffers' = TrueBuffers
  BY SameServer
<1>2. LayerInv' /\ SubmitInv' /\ FlagInv' /\ TelemetryInv'
  BY <1>1, TruthGrows, SameWriters DEF TelemetryInv
<1> QED BY <1>1, <1>2

LEMMA StepKeepsDemoInv == DemoInv /\ [Next]_vars => DemoInv'
<1> SUFFICES ASSUME DemoInv, Next PROVE DemoInv'
  BY StutterKeeps
<1>1. status \in Range(history) /\ telemetryRevision \in 0..telemetryRevision
  BY StatusIsTrue DEF DemoInv, ServerInv
<1>2. (\E c \in Layers, next \in Range(history) : DeliverStatus(c, next)) => DemoInv'
  BY DeliverStatusKeeps
<1>3. (\E c \in Layers : ServeWrite(c) \/ StatusStreamFails(c)) => DemoInv'
  BY ServeWriteKeeps, StreamFailsKeeps
<1>4. ASSUME NEW s \in Submits,
             Begin(s) \/ SubmitStep(s) \/ WriteFails(s) \/ Interrupt(s) \/ Timeout(s)
      PROVE  DemoInv'
  BY <1>4, BeginKeeps, AcquireKeeps, AnsweredKeeps, WriteFailsKeeps, InterruptKeeps, WaitKeeps
  DEF SubmitStep
<1>5. TelemetryStep => DemoInv'
  BY TelemetryKeeps
<1>6. ServerTicks => DemoInv'
  BY TickKeeps
<1> QED BY <1>1, <1>2, <1>3, <1>4, <1>5, <1>6 DEF Next, Progress, TelemetryStep

LEMMA SpecKeepsDemoInv == Spec => []DemoInv
BY InitDemoInv, StepKeepsDemoInv, PTL DEF Spec

-----------------------------------------------------------------------------
(* The theorems.                                                           *)

\* Type invariant of the clients and the server, for any of their numbers.
THEOREM DemoIsTyped == Spec => []DemoTypeOK
<1>1. DemoInv => DemoTypeOK
  <2> SUFFICES ASSUME DemoInv PROVE DemoTypeOK
    OBVIOUS
  <2>1. TrueEntries \subseteq Entries
    BY DEF TrueEntries
  <2>2. TrueBuffers \subseteq Buffers
    BY <2>1, SeqMonotonic DEF TrueBuffers, Buffers
  <2>3. history \in Seq(Buffers)
    BY <2>2, SeqMonotonic DEF DemoInv, ServerInv
  <2>4. \A s \in Submits : Finds(s) \subseteq Entries \cup {None}
    BY <2>1 DEF Finds
  <2>5. submit \in [Submits ->
          [pc : {"idle", "checked", "writing", "done"} \cup Awaiting,
           found : Entries \cup {None},
           result : Entries \cup [error : Errors] \cup {None}]]
    <3>1. \A s \in Submits : submit[s] \in
            [pc : {"idle", "checked", "writing", "done"} \cup Awaiting,
             found : Entries \cup {None},
             result : Entries \cup [error : Errors] \cup {None}]
      BY <2>4 DEF DemoInv, ClientInv, SubmitInv, Results, Phases
    <3>2. submit = [s \in Submits |-> submit[s]]
      BY DEF DemoInv, ClientInv, SubmitInv
    <3> QED BY <3>1, <3>2
  <2>6. layer \in [Layers -> [statusRef : Buffers, open : BOOLEAN, submitInProgress : BOOLEAN]]
    BY <2>2 DEF DemoInv, ClientInv, LayerInv
  <2>7. executed \in [CommandIds -> Nat]
    BY DEF DemoInv, ServerInv
  <2> QED BY <2>3, <2>5, <2>6, <2>7
          DEF DemoTypeOK, DemoInv, ServerInv, ClientInv, TelemetryInv
<1> QED BY <1>1, SpecKeepsDemoInv, PTL

\* However many clients submit a command id however often, and however small the
\* buffer, it is executed at most once.
THEOREM CommandsRunOnce == Spec => []ExecutedAtMostOnce
<1>1. DemoInv => ExecutedAtMostOnce
  BY DEF DemoInv, ServerInv, ExecutedAtMostOnce
<1> QED BY <1>1, SpecKeepsDemoInv, PTL

\* What a submit returns is true of its own command id.
THEOREM OutcomesAreTrue == Spec => []OutcomeIsTrue
<1>1. DemoInv => OutcomeIsTrue
  <2> SUFFICES ASSUME DemoInv, NEW s \in Submits, submit[s].result \in Entries
               PROVE  /\ submit[s].result.commandId = idOf(s)
                      /\ submit[s].result.state = "Completed" => executed[idOf(s)] = 1
                      /\ submit[s].result.statusCode \in RejectionCodes \ {"DuplicateCommandId"}
                            => executed[idOf(s)] = 0
    BY DEF OutcomeIsTrue
  <2>1. submit[s].result \in Results(s)
    BY DEF DemoInv, ClientInv, SubmitInv
  <2>2. submit[s].result \in TrueEntries /\ submit[s].result.commandId = idOf(s)
    BY <2>1, EntriesAreNoErrors DEF Results, Finds
  <2> QED BY <2>2 DEF TrueEntries
<1> QED BY <1>1, SpecKeepsDemoInv, PTL

\* The submit flag of a layer is set exactly while one of its submits writes.
THEOREM FlagsAreHeld == Spec => []FlagIsHeld
<1>1. DemoInv => FlagIsHeld
  <2> SUFFICES ASSUME DemoInv, NEW c \in Layers
               PROVE  LET writers == {s \in Submits : layerOf[s] = c /\ pc(s) = "writing"}
                      IN  /\ layer[c].submitInProgress = (writers # {})
                          /\ Cardinality(writers) <= 1
    BY DEF FlagIsHeld
  <2> DEFINE writers == {s \in Submits : layerOf[s] = c /\ pc(s) = "writing"}
  <2>1. layer[c].submitInProgress \in BOOLEAN
    BY DEF DemoInv, ClientInv, LayerInv
  <2>2. layer[c].submitInProgress <=> writers # {}
    BY DEF DemoInv, ClientInv, FlagInv, Writes
  <2>3. writers = {} \/ \E s : writers = {s}
    <3>1. \A s, t \in writers : s = t
      BY DEF DemoInv, ClientInv, FlagInv, Writes
    <3> HIDE DEF writers
    <3> QED BY <3>1
  <2>4. Cardinality(writers) <= 1
    <3> HIDE DEF writers
    <3>1. writers = {} => Cardinality(writers) = 0
      BY FS_EmptySet
    <3>2. ASSUME NEW s, writers = {s} PROVE Cardinality(writers) = 1
      BY <3>2, FS_Singleton
    <3>3. Cardinality(writers) \in {0, 1}
      BY <2>3, <3>1, <3>2
    <3> QED BY <3>3
  <2> QED BY <2>1, <2>2, <2>4
<1> QED BY <1>1, SpecKeepsDemoInv, PTL

\* Two states of the machine never share a revision with a snapshot.
THEOREM SnapshotsAreCoherent == Spec => []SnapshotIsCoherent
<1>1. DemoInv => SnapshotIsCoherent
  BY DEF DemoInv, ServerInv, ClientInv, TelemetryInv, SnapshotIsCoherent
<1> QED BY <1>1, SpecKeepsDemoInv, PTL
=============================================================================
