\* A tray update started beside another operation.
SPECIFICATION Spec
CONSTANTS
  OS = "linux"
  Acting = {"TRAY", "X2GO"}
  MaxOps = 2
PROPERTY TrayUpdatesAlone
