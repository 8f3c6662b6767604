SPECIFICATION Spec
PROPERTIES
  ControlCExits
CHECK_DEADLOCK FALSE
