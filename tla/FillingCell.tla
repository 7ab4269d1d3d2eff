---------------------------- MODULE FillingCell ----------------------------
(***************************************************************************)
(* The simulated filling cell of examples/demo-machine/server: the machine *)
(* model the server keeps, and what each command does to it.  A client     *)
(* writes a command to Commands.SubmitRequest and observeSubmit runs the   *)
(* whole of it before the write returns, so that a command is one step.    *)
(* A command that is refused changes nothing here; what it leaves in the   *)
(* status buffer is module CommandStatus.                                  *)
(*                                                                         *)
(* Moves, homing and priming finish inside the command that starts them:   *)
(* no axis is ever seen in motion and the pump is never seen running.      *)
(* Nothing in the server presses the emergency stop, opens the guard door  *)
(* or completes a batch, so Machine_AcknowledgeSafetyReset and             *)
(* Machine_ClearCompleted are refused in every state and are not actions.  *)
(*                                                                         *)
(* Positions are whole millimetres.  Fault code strings, speeds and the    *)
(* production counters, which no step of the server advances, are left out.*)
(***************************************************************************)
EXTENDS Integers

CONSTANTS
    Scenarios,          \* the scenarios a server may be started with
    Configurations,     \* the run configurations a client may submit
    XTargets, ZTargets, \* the named targets a client may ask for
    XPositions, ZPositions,  \* the raw positions a client may ask for
    XJogs, ZJogs,       \* the jogs a client may ask for, [velocity, maxDurationMs]
    Velocities,         \* the velocities a client may ask for
    MaxElapsed          \* bound on the number of ticks counted into a batch

ASSUME MotionAssumption ==
    /\ XPositions \subseteq Int /\ ZPositions \subseteq Int
    /\ Velocities \subseteq Int /\ MaxElapsed \in Nat
    /\ XJogs \subseteq [velocity : Int, maxDurationMs : Int]
    /\ ZJogs \subseteq [velocity : Int, maxDurationMs : Int]

VARIABLES
    machineState, operatingMode, cyclePhase,
    configuration, configurationValid,
    xAxis, zAxis,
    tankLevel, faults,
    pumpState, nozzleValve, clamp,
    inspection,
    batch

cellVars == <<machineState, operatingMode, cyclePhase, configuration,
          configurationValid, xAxis, zAxis, tankLevel, faults, pumpState,
          nozzleValve, clamp, inspection, batch>>

lifecycle == <<machineState, cyclePhase>>
settings == <<operatingMode, configuration, configurationValid>>
filling == <<tankLevel, pumpState, nozzleValve>>

-----------------------------------------------------------------------------
(* The enumerations of the server.                                         *)

MachineStates == {"Unknown", "Booting", "Idle", "Ready", "Running", "Paused",
                  "Complete", "Aborted", "Faulted", "SafetyStopped", "Resetting"}
OperatingModes == {"None", "Automatic", "Manual", "Maintenance"}
CyclePhases == {"None", "WaitingForLoad", "Clamping", "MovingToFill",
                "LoweringNozzle", "Filling", "RaisingNozzle", "MovingToInspect",
                "Inspecting", "MovingToUnload", "Unclamping",
                "WaitingForUnload", "ReturningToLoad"}
AxisStates == {"Unknown", "Disabled", "NotHomed", "Standstill", "Homing",
               "Moving", "Stopping", "Faulted"}
XAxisTargets == {"None", "Home", "Load", "Fill", "Inspect", "Unload"}
ZAxisTargets == {"None", "Home", "Safe", "Fill", "Maintenance"}
AxisSelections == {"None", "XAxis", "ZAxis", "Both"}
PumpStates == {"Stopped", "Running", "Priming", "Faulted"}
NozzleValveStates == {"Closed", "Open", "Moving", "Faulted"}
ClampStates == {"Open", "Closed", "Moving", "Faulted"}
InspectionResults == {"NotInspected", "Pass", "Fail"}
RejectReasons == {"None", "Underfilled", "Overfilled", "SensorFault"}
ActuatorIds == {"None", "XAxis", "ZAxis", "Clamp", "Pump", "NozzleValve",
                "InspectionSensor"}

ASSUME RequestAssumption ==
    /\ XTargets \subseteq XAxisTargets /\ ZTargets \subseteq ZAxisTargets
    /\ Configurations \subseteq
          [productName : STRING, targetFillVolumeMl : Int, fillToleranceMl : Int,
           pumpRateMlPerSecond : Int, batchSize : Int, xAxisSpeed : Int,
           zAxisSpeed : Int]

xAxisTargetPositions == [Home |-> 0, Load |-> 100, Fill |-> 300,
                         Inspect |-> 500, Unload |-> 700]
zAxisTargetPositions == [Home |-> 0, Safe |-> 0, Fill |-> -120,
                         Maintenance |-> 40]

\* Object.entries lists the targets in the order of their numbers, so that the
\* first match at 0 is Home on both axes.
xTargetForPosition(p) ==
    IF \E t \in XAxisTargets \ {"None"} : xAxisTargetPositions[t] = p
    THEN CHOOSE t \in XAxisTargets \ {"None"} : xAxisTargetPositions[t] = p
    ELSE "None"
zTargetForPosition(p) ==
    IF \E t \in {"Home", "Fill", "Maintenance"} : zAxisTargetPositions[t] = p
    THEN CHOOSE t \in {"Home", "Fill", "Maintenance"} : zAxisTargetPositions[t] = p
    ELSE "None"

FaultFlags == {"xAxisNotHomed", "zAxisNotHomed", "xAxisPositionError",
               "zAxisPositionError", "clampFailedToClose", "tankEmpty",
               "pumpFault", "valveFault", "sensorFault"}

tankCapacityMl == 10000
lowLevelThresholdMl == 1000
emptyThresholdMl == 100

\* The safety inputs keep the values the model starts with.
safety == [emergencyStopState |-> "Released", guardDoorState |-> "Closed",
           safetyCircuitState |-> "Ok", resetRequired |-> FALSE,
           stopReason |-> "None"]

defaultRunConfiguration ==
    [productName |-> "", targetFillVolumeMl |-> 0, fillToleranceMl |-> 0,
     pumpRateMlPerSecond |-> 0, batchSize |-> 0, xAxisSpeed |-> 0,
     zAxisSpeed |-> 0]

-----------------------------------------------------------------------------
(* What the handlers ask of the model.                                     *)

safetyOk ==
    /\ safety.emergencyStopState = "Released"
    /\ safety.guardDoorState = "Closed"
    /\ safety.safetyCircuitState = "Ok"

tankEmpty == tankLevel <= emptyThresholdMl \/ "tankEmpty" \in faults
tankLow == tankLevel <= lowLevelThresholdMl

activeFaults == faults \cup (IF tankEmpty THEN {"tankEmpty"} ELSE {})

atPosition(axis, p) == axis.position = p
zIsSafe == atPosition(zAxis, zAxisTargetPositions["Safe"])

axisStopped(axis) == axis.state \notin {"Moving", "Homing", "Stopping"}
allAxesStopped == axisStopped(xAxis) /\ axisStopped(zAxis)

readyPreconditionsMet ==
    /\ configurationValid
    /\ xAxis.homed /\ zAxis.homed
    /\ safetyOk
    /\ activeFaults = {}
    /\ ~tankEmpty
    /\ operatingMode = "Automatic"

\* Defect: any stop is left as soon as no fault is active.
transitionIdleOrReadyForgiving(state) ==
    /\ machineState' = IF activeFaults' # {} THEN "Faulted"
                       ELSE IF readyPreconditionsMet' THEN "Ready" ELSE "Idle"
    /\ cyclePhase' = "None"

\* The call that ends most commands, where "state" is the machine state before
\* it: an active fault wins, a stopped machine stays stopped, and any other
\* becomes Ready or Idle.
transitionIdleOrReady(state) ==
    /\ machineState' = IF activeFaults' # {} THEN "Faulted"
                       ELSE IF state \in {"Faulted", "Aborted", "SafetyStopped"}
                       THEN state
                       ELSE IF readyPreconditionsMet' THEN "Ready" ELSE "Idle"
    /\ cyclePhase' = "None"

recoveryModeChangePossible ==
    /\ machineState \in {"Faulted", "Aborted"}
    /\ allAxesStopped
    /\ pumpState = "Stopped"
    /\ nozzleValve = "Closed"
    /\ safetyOk

canSetMode(mode) ==
    \/ machineState \in {"Idle", "Ready", "Complete"}
    \/ mode = "Maintenance" /\ recoveryModeChangePossible

machineResetPossible ==
    /\ machineState \in {"Faulted", "Aborted", "SafetyStopped"}
    /\ safetyOk
    /\ ~safety.resetRequired
    /\ allAxesStopped
    /\ pumpState = "Stopped"
    /\ nozzleValve = "Closed"

safetyResetAcknowledgePossible == safety.resetRequired /\ safetyOk

\* Each machine command's state check, before its payload is used.
machineCommandAvailability(command) ==
    \/ /\ command = "SetMode"
       /\ \/ machineState \in {"Idle", "Ready", "Complete"}
          \/ recoveryModeChangePossible
    \/ /\ command \in {"Configure", "Home"}
       /\ machineState \in {"Idle", "Ready"} /\ safetyOk
       /\ command = "Home" => activeFaults = {}
    \/ command = "Start" /\ machineState = "Ready"
    \/ command = "Pause" /\ machineState = "Running"
    \/ command = "Resume" /\ machineState = "Paused"
    \/ command = "Abort" /\ machineState \in {"Running", "Paused"}
    \/ command = "Reset" /\ machineResetPossible
    \/ command = "ClearCompleted" /\ machineState = "Complete"
    \/ command = "AcknowledgeSafetyReset" /\ safetyResetAcknowledgePossible

\* Manual and Maintenance commands need their own mode and a machine at rest.
commandAvailability(mode) ==
    /\ operatingMode = mode
    /\ machineState \notin {"Running", "Paused", "Resetting", "SafetyStopped"}
    /\ safetyOk

-----------------------------------------------------------------------------
(* What the handlers do to one axis.                                       *)

enabledState(axis) == IF axis.enabled THEN "Standstill" ELSE "Disabled"

homeAxis(target, p) ==
    [state |-> "Standstill", position |-> p, homed |-> TRUE, enabled |-> TRUE,
     currentTarget |-> target]
homedX == homeAxis("Home", xAxisTargetPositions["Home"])
homedZ == homeAxis("Safe", zAxisTargetPositions["Safe"])

moveAxisTo(axis, target, p) ==
    [axis EXCEPT !.position = p, !.state = enabledState(axis),
                 !.currentTarget = target]

setAxisEnabled(axis, enabled) ==
    [axis EXCEPT !.enabled = enabled,
                 !.state = IF ~enabled THEN "Disabled"
                           ELSE IF axis.homed THEN "Standstill" ELSE "NotHomed"]

clearAxisFault(axis) == [axis EXCEPT !.state = enabledState(axis)]

xInTravel(p) == 0 <= p /\ p <= 700
zInTravel(p) == -120 <= p /\ p <= 40

-----------------------------------------------------------------------------
(* The model a server starts with.                                         *)

newAxis == [state |-> "NotHomed", position |-> 0, homed |-> FALSE,
            enabled |-> TRUE, currentTarget |-> "None"]
notInspected == [fillLevelOk |-> TRUE, result |-> "NotInspected",
                 rejectReason |-> "None"]
resetBatch(size) == [targetCount |-> size, started |-> FALSE, elapsed |-> 0]

CellInit ==
    /\ machineState = "Idle" /\ operatingMode = "Automatic"
    /\ cyclePhase = "None"
    /\ configuration = defaultRunConfiguration /\ configurationValid = FALSE
    /\ xAxis = newAxis /\ zAxis = newAxis
    /\ pumpState = "Stopped" /\ nozzleValve = "Closed" /\ clamp = "Open"
    /\ inspection = notInspected
    /\ batch = resetBatch(0)
    /\ \E scenario \in Scenarios :
          /\ tankLevel = IF scenario = "LowTank" THEN 900 ELSE tankCapacityMl
          /\ faults = IF scenario = "ClampFault" THEN {"clampFailedToClose"}
                      ELSE {}

-----------------------------------------------------------------------------
(* Machine commands.                                                       *)

validateRunConfiguration(c) ==
    /\ c.productName # ""
    /\ c.targetFillVolumeMl > 0 /\ c.fillToleranceMl >= 0
    /\ c.pumpRateMlPerSecond > 0 /\ c.batchSize > 0
    /\ c.xAxisSpeed > 0 /\ c.zAxisSpeed > 0

Machine_Configure(c) ==
    /\ validateRunConfiguration(c)
    /\ machineCommandAvailability("Configure")
    /\ configuration' = c /\ configurationValid' = TRUE
    /\ batch' = resetBatch(c.batchSize)
    /\ UNCHANGED <<operatingMode, xAxis, zAxis, faults, clamp, inspection, filling>>
    /\ transitionIdleOrReady(machineState)

\* Defect: the mode changes without a look at the lifecycle.
Machine_SetModeOnly(mode) ==
    /\ mode # "None"
    /\ machineCommandAvailability("SetMode") /\ canSetMode(mode)
    /\ operatingMode' = mode
    /\ UNCHANGED <<lifecycle, configuration, configurationValid, xAxis, zAxis,
                   faults, clamp, inspection, batch, filling>>

Machine_SetMode(mode) ==
    /\ mode # "None"
    /\ machineCommandAvailability("SetMode") /\ canSetMode(mode)
    /\ operatingMode' = mode
    /\ UNCHANGED <<configuration, configurationValid, xAxis, zAxis, faults,
                   clamp, inspection, batch, filling>>
    /\ transitionIdleOrReady(
          IF machineState = "Ready" /\ mode # "Automatic" THEN "Idle"
          ELSE machineState)

Machine_Home ==
    /\ machineCommandAvailability("Home")
    /\ xAxis' = homedX /\ zAxis' = homedZ
    /\ UNCHANGED <<settings, faults, clamp, inspection, batch, filling>>
    /\ transitionIdleOrReady(machineState)

Machine_Start ==
    /\ machineCommandAvailability("Start")
    /\ machineState' = "Running" /\ cyclePhase' = "WaitingForLoad"
    /\ batch' = [batch EXCEPT !.started = TRUE]
    /\ xAxis' = IF atPosition(xAxis, xAxisTargetPositions["Load"]) THEN xAxis
                ELSE moveAxisTo(xAxis, "Load", xAxisTargetPositions["Load"])
    /\ UNCHANGED <<settings, zAxis, faults, clamp, inspection, filling>>

Machine_Pause ==
    /\ machineCommandAvailability("Pause")
    /\ machineState' = "Paused"
    /\ pumpState' = "Stopped" /\ nozzleValve' = "Closed"
    /\ UNCHANGED <<cyclePhase, settings, xAxis, zAxis, tankLevel, faults, clamp,
                   inspection, batch>>

Machine_Resume ==
    /\ machineCommandAvailability("Resume")
    /\ machineState' = "Running"
    /\ UNCHANGED <<cyclePhase, settings, xAxis, zAxis, faults, clamp, inspection,
                   batch, filling>>

\* Defect: the nozzle valve stays as it is.
Machine_AbortOpen ==
    /\ machineCommandAvailability("Abort")
    /\ machineState' = "Aborted" /\ pumpState' = "Stopped"
    /\ xAxis' = clearAxisFault(xAxis) /\ zAxis' = clearAxisFault(zAxis)
    /\ UNCHANGED <<cyclePhase, settings, tankLevel, nozzleValve, faults, clamp,
                   inspection, batch>>

Machine_Abort ==
    /\ machineCommandAvailability("Abort")
    /\ machineState' = "Aborted"
    /\ pumpState' = "Stopped" /\ nozzleValve' = "Closed"
    /\ xAxis' = clearAxisFault(xAxis) /\ zAxis' = clearAxisFault(zAxis)
    /\ UNCHANGED <<cyclePhase, settings, tankLevel, faults, clamp, inspection, batch>>

\* "Resetting" is overwritten before the write of the command returns.
Machine_Reset ==
    /\ machineCommandAvailability("Reset")
    /\ pumpState' = "Stopped" /\ nozzleValve' = "Closed"
    /\ UNCHANGED <<settings, xAxis, zAxis, tankLevel, faults, clamp, inspection, batch>>
    /\ transitionIdleOrReady("Resetting")

MachineCommand ==
    \/ \E c \in Configurations : Machine_Configure(c)
    \/ \E mode \in OperatingModes : Machine_SetMode(mode)
    \/ Machine_Home \/ Machine_Start \/ Machine_Pause \/ Machine_Resume
    \/ Machine_Abort \/ Machine_Reset

-----------------------------------------------------------------------------
(* Commands that Manual and Maintenance mode share.                        *)

serviceAvailable == commandAvailability("Manual") \/ commandAvailability("Maintenance")

\* Everything but the two axes; a move never re-evaluates the machine state.
exceptMotion == <<lifecycle, settings, faults, clamp, inspection, batch, filling>>

MoveXAxisToTarget(target, velocity) ==
    /\ target # "None" /\ velocity > 0
    /\ serviceAvailable /\ zIsSafe
    /\ xAxis' = moveAxisTo(xAxis, target, xAxisTargetPositions[target])
    /\ UNCHANGED <<zAxis, exceptMotion>>

MoveXAxisToPosition(p, velocity) ==
    /\ velocity > 0
    /\ serviceAvailable /\ zIsSafe /\ xInTravel(p)
    /\ xAxis' = moveAxisTo(xAxis, xTargetForPosition(p), p)
    /\ UNCHANGED <<zAxis, exceptMotion>>

MoveZAxisToTarget(target, velocity) ==
    /\ target # "None" /\ velocity > 0
    /\ serviceAvailable
    /\ zAxis' = moveAxisTo(zAxis, target, zAxisTargetPositions[target])
    /\ UNCHANGED <<xAxis, exceptMotion>>

MoveZAxisToPosition(p, velocity) ==
    /\ velocity > 0
    /\ serviceAvailable /\ zInTravel(p)
    /\ zAxis' = moveAxisTo(zAxis, zTargetForPosition(p), p)
    /\ UNCHANGED <<xAxis, exceptMotion>>

validJog(jog) ==
    jog.velocity > 0 /\ jog.maxDurationMs > 0 /\ jog.maxDurationMs <= 5000

jogDistance(jog, direction) ==
    ((jog.velocity * jog.maxDurationMs) \div 1000) * direction

JogX(jog, direction) ==
    LET next == xAxis.position + jogDistance(jog, direction) IN
    /\ validJog(jog)
    /\ serviceAvailable /\ zIsSafe /\ xInTravel(next)
    /\ xAxis' = moveAxisTo(xAxis, xTargetForPosition(next), next)
    /\ UNCHANGED <<zAxis, exceptMotion>>

JogZ(jog, direction) ==
    LET next == zAxis.position + jogDistance(jog, direction) IN
    /\ validJog(jog)
    /\ serviceAvailable /\ zInTravel(next)
    /\ zAxis' = moveAxisTo(zAxis, zTargetForPosition(next), next)
    /\ UNCHANGED <<xAxis, exceptMotion>>

SetClamp(state) ==
    /\ serviceAvailable
    /\ clamp' = state
    /\ UNCHANGED <<lifecycle, settings, xAxis, zAxis, faults, inspection, batch, filling>>

\* The pump is set to Priming and back to Stopped in the same call.
PrimePump ==
    /\ serviceAvailable
    /\ ~tankEmpty /\ nozzleValve = "Closed"
    /\ pumpState' = "Stopped"
    /\ UNCHANGED <<lifecycle, settings, xAxis, zAxis, tankLevel, faults,
                   nozzleValve, clamp, inspection, batch>>

ServiceCommand ==
    \/ \E target \in XTargets, v \in Velocities : MoveXAxisToTarget(target, v)
    \/ \E p \in XPositions, v \in Velocities : MoveXAxisToPosition(p, v)
    \/ \E target \in ZTargets, v \in Velocities : MoveZAxisToTarget(target, v)
    \/ \E p \in ZPositions, v \in Velocities : MoveZAxisToPosition(p, v)
    \/ \E jog \in XJogs, direction \in {1, -1} : JogX(jog, direction)
    \/ \E jog \in ZJogs, direction \in {1, -1} : JogZ(jog, direction)
    \/ \E state \in {"Open", "Closed"} : SetClamp(state)
    \/ PrimePump

-----------------------------------------------------------------------------
(* Manual commands.                                                        *)

Manual_HomeX ==
    /\ commandAvailability("Manual")
    /\ xAxis' = homedX
    /\ UNCHANGED <<settings, zAxis, faults, clamp, inspection, batch, filling>>
    /\ transitionIdleOrReady(machineState)

Manual_HomeZ ==
    /\ commandAvailability("Manual")
    /\ zAxis' = homedZ
    /\ UNCHANGED <<settings, xAxis, faults, clamp, inspection, batch, filling>>
    /\ transitionIdleOrReady(machineState)

Manual_StopPump ==
    /\ commandAvailability("Manual")
    /\ pumpState' = "Stopped"
    /\ UNCHANGED <<lifecycle, settings, xAxis, zAxis, tankLevel, faults,
                   nozzleValve, clamp, inspection, batch>>

Manual_OpenNozzleValve ==
    /\ commandAvailability("Manual") /\ pumpState = "Stopped"
    /\ nozzleValve' = "Open"
    /\ UNCHANGED <<lifecycle, settings, xAxis, zAxis, tankLevel, faults,
                   pumpState, clamp, inspection, batch>>

Manual_CloseNozzleValve ==
    /\ commandAvailability("Manual")
    /\ nozzleValve' = "Closed"
    /\ UNCHANGED <<lifecycle, settings, xAxis, zAxis, tankLevel, faults,
                   pumpState, clamp, inspection, batch>>

\* Nothing is ever filled, so the level the sensor sees is 0.
runInspection ==
    LET ok == /\ "sensorFault" \notin faults
              /\ \/ configuration.targetFillVolumeMl = 0
                 \/ configuration.targetFillVolumeMl <= configuration.fillToleranceMl
    IN  [fillLevelOk |-> ok,
         result |-> IF ok THEN "Pass" ELSE "Fail",
         rejectReason |-> IF ok THEN "None"
                          ELSE IF 0 < configuration.targetFillVolumeMl
                          THEN "Underfilled" ELSE "Overfilled"]

Manual_TriggerInspectionOnce ==
    /\ commandAvailability("Manual")
    /\ inspection' = runInspection
    /\ UNCHANGED <<lifecycle, settings, xAxis, zAxis, faults, clamp, batch, filling>>

faultOf == [XAxis |-> "xAxisPositionError", ZAxis |-> "zAxisPositionError",
            Clamp |-> "clampFailedToClose", Pump |-> "pumpFault",
            NozzleValve |-> "valveFault", InspectionSensor |-> "sensorFault"]

Manual_ClearActuatorFault(actuator) ==
    /\ actuator # "None"
    /\ commandAvailability("Manual")
    /\ faults' = faults \ {faultOf[actuator]}
    /\ xAxis' = IF actuator = "XAxis" THEN clearAxisFault(xAxis) ELSE xAxis
    /\ zAxis' = IF actuator = "ZAxis" THEN clearAxisFault(zAxis) ELSE zAxis
    /\ clamp' = IF actuator = "Clamp" THEN "Open" ELSE clamp
    /\ pumpState' = IF actuator = "Pump" THEN "Stopped" ELSE pumpState
    /\ nozzleValve' = IF actuator = "NozzleValve" THEN "Closed" ELSE nozzleValve
    /\ UNCHANGED <<settings, tankLevel, inspection, batch>>
    /\ transitionIdleOrReady(machineState)

ManualCommand ==
    \/ Manual_HomeX \/ Manual_HomeZ
    \/ Manual_StopPump \/ Manual_OpenNozzleValve \/ Manual_CloseNozzleValve
    \/ Manual_TriggerInspectionOnce
    \/ \E a \in ActuatorIds : Manual_ClearActuatorFault(a)

-----------------------------------------------------------------------------
(* Maintenance commands.                                                   *)

Maintenance_RefillTank ==
    /\ commandAvailability("Maintenance")
    /\ tankLevel' = tankCapacityMl /\ faults' = faults \ {"tankEmpty"}
    /\ UNCHANGED <<settings, xAxis, zAxis, pumpState, nozzleValve, clamp,
                   inspection, batch>>
    /\ transitionIdleOrReady(machineState)

\* Defect: the machine is not stopped.
Maintenance_DrainTankQuietly ==
    /\ commandAvailability("Maintenance")
    /\ tankLevel' = 0 /\ faults' = faults \cup {"tankEmpty"}
    /\ UNCHANGED <<lifecycle, settings, xAxis, zAxis, pumpState, nozzleValve,
                   clamp, inspection, batch>>

\* The one command that stops the machine itself, without the call that also
\* resets the cycle phase.
Maintenance_DrainTank ==
    /\ commandAvailability("Maintenance")
    /\ tankLevel' = 0 /\ faults' = faults \cup {"tankEmpty"}
    /\ machineState' = "Faulted"
    /\ UNCHANGED <<cyclePhase, settings, xAxis, zAxis, pumpState, nozzleValve,
                   clamp, inspection, batch>>

Maintenance_CleanNozzle ==
    /\ commandAvailability("Maintenance")
    /\ nozzleValve' = "Closed" /\ faults' = faults \ {"valveFault"}
    /\ UNCHANGED <<lifecycle, settings, xAxis, zAxis, tankLevel, pumpState,
                   clamp, inspection, batch>>

\* Resets of the pump, valve and inspection faults.
Maintenance_ResetFault(flag) ==
    /\ commandAvailability("Maintenance")
    /\ faults' = faults \ {flag}
    /\ UNCHANGED <<settings, xAxis, zAxis, clamp, inspection, batch, filling>>
    /\ transitionIdleOrReady(machineState)

Maintenance_CalibrateFillLevelSensor ==
    /\ commandAvailability("Maintenance")
    /\ faults' = faults \ {"sensorFault"}
    /\ UNCHANGED <<lifecycle, settings, xAxis, zAxis, clamp, inspection, batch, filling>>

Maintenance_SimulateSensorCheck ==
    /\ commandAvailability("Maintenance")
    /\ inspection' = [fillLevelOk |-> TRUE, result |-> "Pass", rejectReason |-> "None"]
    /\ UNCHANGED <<lifecycle, settings, xAxis, zAxis, faults, clamp, batch, filling>>

selectsX(selection) == selection \in {"XAxis", "Both"}
selectsZ(selection) == selection \in {"ZAxis", "Both"}

\* HomeAxes, EnableAxes and DisableAxes: newX and newZ are what the command
\* makes of each selected axis.
withAxisSelection(selection, newX, newZ) ==
    /\ selection # "None"
    /\ commandAvailability("Maintenance")
    /\ xAxis' = IF selectsX(selection) THEN newX ELSE xAxis
    /\ zAxis' = IF selectsZ(selection) THEN newZ ELSE zAxis
    /\ UNCHANGED <<settings, clamp, inspection, batch, filling>>

Maintenance_HomeAxes(selection) ==
    /\ withAxisSelection(selection, homedX, homedZ)
    /\ UNCHANGED faults
    /\ transitionIdleOrReady(machineState)

Maintenance_EnableAxes(selection, enabled) ==
    /\ withAxisSelection(selection, setAxisEnabled(xAxis, enabled),
                         setAxisEnabled(zAxis, enabled))
    /\ UNCHANGED faults
    /\ transitionIdleOrReady(machineState)

Maintenance_ClearAxisFault(selection) ==
    /\ withAxisSelection(selection, clearAxisFault(xAxis), clearAxisFault(zAxis))
    /\ faults' = faults \ ((IF selectsX(selection) THEN {"xAxisPositionError"} ELSE {})
                        \cup (IF selectsZ(selection) THEN {"zAxisPositionError"} ELSE {}))
    /\ transitionIdleOrReady(machineState)

Maintenance_ClearClampFault ==
    /\ commandAvailability("Maintenance")
    /\ faults' = faults \ {"clampFailedToClose"} /\ clamp' = "Open"
    /\ UNCHANGED <<settings, xAxis, zAxis, inspection, batch, filling>>
    /\ transitionIdleOrReady(machineState)

MaintenanceCommand ==
    \/ Maintenance_RefillTank \/ Maintenance_DrainTank \/ Maintenance_CleanNozzle
    \/ \E flag \in {"pumpFault", "valveFault", "sensorFault"} : Maintenance_ResetFault(flag)
    \/ Maintenance_CalibrateFillLevelSensor \/ Maintenance_SimulateSensorCheck
    \/ \E s \in AxisSelections : Maintenance_HomeAxes(s)
    \/ \E s \in AxisSelections, e \in BOOLEAN : Maintenance_EnableAxes(s, e)
    \/ \E s \in AxisSelections : Maintenance_ClearAxisFault(s)
    \/ Maintenance_ClearClampFault

-----------------------------------------------------------------------------
(* The timer, and the specification.                                       *)

\* A tick counts time into a running batch and stops it when the tank is empty.
Tick ==
    /\ machineState = "Running" /\ batch.elapsed < MaxElapsed
    /\ batch' = [batch EXCEPT !.elapsed = @ + 1]
    /\ IF tankEmpty
       THEN /\ faults' = faults \cup {"tankEmpty"} /\ machineState' = "Faulted"
            /\ pumpState' = "Stopped" /\ nozzleValve' = "Closed"
       ELSE UNCHANGED <<faults, machineState, pumpState, nozzleValve>>
    /\ UNCHANGED <<cyclePhase, settings, xAxis, zAxis, tankLevel, clamp, inspection>>

CellNext == MachineCommand \/ ServiceCommand \/ ManualCommand \/ MaintenanceCommand \/ Tick

CellSpec == CellInit /\ [][CellNext]_cellVars

-----------------------------------------------------------------------------
(* Properties.                                                             *)

Axis(targets) == [state : AxisStates, position : Int, homed : BOOLEAN,
                  enabled : BOOLEAN, currentTarget : targets]

\* Type invariant of the machine model.
CellTypeOK ==
    /\ machineState \in MachineStates /\ operatingMode \in OperatingModes
    /\ cyclePhase \in CyclePhases
    /\ configuration \in Configurations \cup {defaultRunConfiguration}
    /\ configurationValid \in BOOLEAN
    /\ xAxis \in Axis(XAxisTargets) /\ zAxis \in Axis(ZAxisTargets)
    /\ tankLevel \in {0, 900, tankCapacityMl} /\ faults \subseteq FaultFlags
    /\ pumpState \in PumpStates /\ nozzleValve \in NozzleValveStates
    /\ clamp \in ClampStates
    /\ inspection \in [fillLevelOk : BOOLEAN, result : InspectionResults,
                       rejectReason : RejectReasons]
    /\ batch \in [targetCount : Nat, started : BOOLEAN, elapsed : 0..MaxElapsed]

\* A machine that is ready, producing or paused satisfies every readiness
\* condition, whatever commands changed the mode, the axes, the tank and the
\* faults before: nothing a later command touches can silently undo one.
ProductionIsReady ==
    machineState \in {"Ready", "Running", "Paused"} =>
        /\ configurationValid /\ validateRunConfiguration(configuration)
        /\ batch.targetCount = configuration.batchSize
        /\ xAxis.homed /\ zAxis.homed
        /\ safetyOk /\ activeFaults = {} /\ ~tankEmpty
        /\ operatingMode = "Automatic"
        /\ (cyclePhase = "WaitingForLoad") = (machineState # "Ready")

\* A machine stopped by a fault or an abort leaves that state only by Reset, and
\* only with no fault active: service commands and mode changes on the way,
\* which all end in the same re-evaluation, never restart it.
LeavesAStop ==
    /\ machineState \in {"Faulted", "Aborted"}
    /\ machineState' \notin {"Faulted", "Aborted"}

OnlyResetLeavesAStop == [][LeavesAStop => Machine_Reset /\ activeFaults = {}]_cellVars

\* No sequence of commands leads to a stop that no command is accepted in: an
\* aborted machine can be reset at once, and a faulted one either can be reset
\* and taken to Maintenance, or is in the mode whose commands close the valve
\* and clear the fault.
RecoveryIsOpen ==
    /\ machineState = "Aborted" => machineResetPossible
    /\ machineState = "Faulted" =>
          \/ machineResetPossible /\ recoveryModeChangePossible
          \/ commandAvailability("Manual") \/ commandAvailability("Maintenance")

XMoves == xAxis'.position # xAxis.position

\* The interlock as the demo machine's README 181 states it: "X may move only when
\* Z is at SafeHeight."  Machine_Home keeps it, since it takes Z to Safe first.
XMovesOnlyWithZSafe == [][XMoves => zIsSafe \/ Machine_Home]_cellVars

\* Moves and jogs obey the interlock.  What breaks it looks at Z nowhere: the start
\* of a batch, and the commands that home the X axis by itself or before Z.
HomesXUnguarded ==
    Manual_HomeX \/ Maintenance_HomeAxes("XAxis") \/ Maintenance_HomeAxes("Both")

OnlyStartAndHomingBreakInterlock ==
    [][XMoves => zIsSafe \/ Machine_Home \/ Machine_Start \/ HomesXUnguarded]_cellVars

=============================================================================
