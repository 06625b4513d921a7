SPECIFICATION SettingsSpec
CHECK_DEADLOCK FALSE
CONSTANTS
  LoopLimits = {"steps"}
  EngineLimits = {"timeout"}
  Hard <- MCHard
  Default <- MCDefault
  Unset = Unset
  Safe = {"pytest"}
  Unsafe = {"shell"}
PROPERTIES
  LoopLimitsFixed Layered
