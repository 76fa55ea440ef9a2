\* A process and its successor.  Two commands: registration and clean-up can stop
\* between them.
CONSTANTS
  p1 = p1
  p2 = p2
  Process <- MCProcess
  Envs <- MCEnvs
  Beside <- MCBeside
  Command = {play, stop}
  Unset = Unset
  Garbled = Garbled
  Second = 1000
SPECIFICATION Spec
INVARIANTS TypeOK ConnectedIsServed NothingBeforeSession CommandsServed LeavesNoCommand
  RunsUsable
PROPERTIES ImplementsSession DropIsNoticed GaugeConverges SignalsHonoured
CHECK_DEADLOCK FALSE
