----------------------------- MODULE CellPanel -----------------------------
(***************************************************************************)
(* The nodes under DemoFillingCell that a client reads, browses or         *)
(* monitors, as functions of the machine model: the server binds a getter  *)
(* to each node, so that every read computes its value anew.  A branch is  *)
(* a record with a field for each node below it.  Descriptions, fault code *)
(* strings, thresholds and nodes that no step changes are left out.        *)
(***************************************************************************)
EXTENDS FillingCell, FiniteSets, Sequences

\* Every other warning flag keeps the FALSE it starts with.
activeWarnings == IF tankLow THEN {"TankLow"} ELSE {}

\* The order in which primaryFaultCode looks at the faults.
faultOrder == <<"xAxisNotHomed", "zAxisNotHomed", "xAxisPositionError",
                "zAxisPositionError", "clampFailedToClose", "tankEmpty",
                "pumpFault", "valveFault", "sensorFault">>

primaryFaultCode ==
    IF activeFaults = {} THEN "None"
    ELSE LET active == {i \in 1..Len(faultOrder) : faultOrder[i] \in activeFaults}
         IN  faultOrder[CHOOSE i \in active : \A j \in active : i <= j]

highestSeverity ==
    IF machineState = "SafetyStopped" THEN "Safety"
    ELSE IF activeFaults # {} THEN "Fault"
    ELSE IF activeWarnings # {} THEN "Warning" ELSE "None"

\* Every entry of the status buffer is terminal when a read can come in, so
\* that Busy is a matter of the machine state alone.
StateBranch ==
    [MachineState |-> machineState, OperatingMode |-> operatingMode,
     CyclePhase |-> cyclePhase,
     Ready |-> machineState = "Ready",
     Busy |-> machineState \in {"Running", "Resetting"},
     ConfigurationValid |-> configurationValid,
     Homed |-> xAxis.homed /\ zAxis.homed,
     SafetyOk |-> safetyOk,
     FaultActive |-> activeFaults # {},
     WarningActive |-> activeWarnings # {},
     Configuration |-> configuration]

AxisBranch(axis, positions) ==
    [State |-> axis.state, ActualPositionMm |-> axis.position,
     Homed |-> axis.homed, Enabled |-> axis.enabled,
     CurrentTarget |-> axis.currentTarget,
     At |-> {t \in DOMAIN positions : atPosition(axis, positions[t])}]

MotionBranch ==
    [XAxis |-> AxisBranch(xAxis, xAxisTargetPositions),
     ZAxis |-> AxisBranch(zAxis, zAxisTargetPositions)]

FillingBranch ==
    [LevelMl |-> tankLevel, LowLevel |-> tankLow, Empty |-> tankEmpty,
     PumpState |-> pumpState, PumpRunning |-> pumpState = "Running",
     RateMlPerSecond |-> configuration.pumpRateMlPerSecond,
     NozzleValveState |-> nozzleValve, NozzleValveOpen |-> nozzleValve = "Open"]

PartHandlingBranch ==
    [State |-> clamp, Open |-> clamp = "Open", Closed |-> clamp = "Closed"]

InspectionBranch ==
    [FillLevelOk |-> inspection.fillLevelOk, Result |-> inspection.result,
     RejectReason |-> inspection.rejectReason]

SafetyBranch ==
    [EmergencyStopState |-> safety.emergencyStopState,
     GuardDoorState |-> safety.guardDoorState,
     SafetyCircuitState |-> safety.safetyCircuitState,
     ResetRequired |-> safety.resetRequired, StopReason |-> safety.stopReason,
     SafetyResetAcknowledgePossible |-> safetyResetAcknowledgePossible,
     MachineResetPossible |-> machineResetPossible]

OperatorFeedbackBranch ==
    [Red |-> machineState \in {"Faulted", "SafetyStopped", "Aborted"},
     Yellow |-> machineState \in {"Idle", "Paused"} \/ activeWarnings # {},
     Green |-> machineState \in {"Ready", "Running"},
     Blue |-> operatingMode = "Maintenance",
     Buzzer |-> IF machineState \in {"SafetyStopped", "Faulted"} THEN "Continuous"
                ELSE IF activeWarnings # {} THEN "Intermittent"
                ELSE IF machineState = "Complete" THEN "ShortPulse" ELSE "Off"]

\* No part is ever completed.
ProductionBranch ==
    [TargetCount |-> batch.targetCount, CompletedCount |-> 0,
     RemainingCount |-> batch.targetCount,
     BatchElapsedTime |-> batch.elapsed]

DiagnosticsBranch ==
    [TankLow |-> tankLow,
     Faults |-> activeFaults,
     ActiveWarningCount |-> Cardinality(activeWarnings),
     ActiveFaultCount |-> Cardinality(activeFaults),
     HighestSeverity |-> highestSeverity,
     PrimaryFaultCode |-> primaryFaultCode]

MachineKinds == {"SetMode", "Configure", "Home", "Start", "Pause", "Resume",
                 "Abort", "Reset", "ClearCompleted", "AcknowledgeSafetyReset"}

\* Catalog.<kind>.CurrentlyAvailable, for the machine commands one by one and
\* for the Manual and Maintenance commands together: those of a domain are all
\* available or none is.
CatalogBranch ==
    [kind \in MachineKinds \cup {"Manual", "Maintenance"} |->
        IF kind \in MachineKinds THEN machineCommandAvailability(kind)
        ELSE commandAvailability(kind)]

\* The object a client browses to, without its Commands and Telemetry.
DemoFillingCell ==
    [State |-> StateBranch, Catalog |-> CatalogBranch, Motion |-> MotionBranch,
     Filling |-> FillingBranch, PartHandling |-> PartHandlingBranch,
     Inspection |-> InspectionBranch, Safety |-> SafetyBranch,
     OperatorFeedback |-> OperatorFeedbackBranch,
     Production |-> ProductionBranch, Diagnostics |-> DiagnosticsBranch]

-----------------------------------------------------------------------------
(* Properties.                                                             *)

\* What the panel shows of a machine no command has been accepted by.  The server of
\* the scenario "ClampFault" starts with the fault active in this state, where the
\* demo machine's README 1161 says that the clamp fails "when the first part is loaded".
AsStarted(state) ==
    /\ state.MachineState = "Idle" /\ state.OperatingMode = "Automatic"
    /\ ~state.ConfigurationValid /\ ~state.Homed

\* An operator can rely on the panel: an active fault shows in the red light and
\* the buzzer, unless the machine has it since its start, and has the severity
\* and the code of a fault; a green light means that nothing is wrong; some
\* light is always on; the catalog never offers two modes at once, and offers a
\* reset only under a red light; an inspection that fails has a reason; an axis
\* named at a target is there.
PanelIsHonest ==
    LET panel == DemoFillingCell
        lights == panel.OperatorFeedback  diagnostics == panel.Diagnostics IN
    /\ panel.State.FaultActive =>
          /\ (lights.Red /\ lights.Buzzer = "Continuous") \/ AsStarted(panel.State)
          /\ diagnostics.HighestSeverity = "Fault"
          /\ diagnostics.PrimaryFaultCode \in diagnostics.Faults
    /\ lights.Green =>
          /\ panel.State.Homed /\ panel.State.ConfigurationValid
          /\ diagnostics.ActiveFaultCount = 0 /\ ~lights.Blue
          /\ panel.Production.RemainingCount > 0
          /\ panel.Filling.RateMlPerSecond > 0 /\ ~panel.Filling.Empty
    /\ ~(lights.Red /\ lights.Green) /\ (lights.Red \/ lights.Green \/ lights.Yellow)
    /\ ~(panel.Catalog["Manual"] /\ panel.Catalog["Maintenance"])
    /\ panel.Catalog["Reset"] => lights.Red /\ ~panel.Catalog["Home"]
    /\ panel.Inspection.FillLevelOk = (panel.Inspection.RejectReason = "None")
    /\ \A axis \in {panel.Motion.XAxis, panel.Motion.ZAxis} :
          axis.CurrentTarget # "None" => axis.CurrentTarget \in axis.At
=============================================================================
