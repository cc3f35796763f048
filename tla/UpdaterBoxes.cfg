\* One component of each shape found on a Mac, at most two operations added.
SPECIFICATION Spec
CONSTANTS
  OS = "mac"
  Acting = {"TRAY", "P2P", "X2GO", "ORACLE_VIRTUALBOX",
            "SUBUTAI_BOX", "E2E", "VAGRANT_VMWARE_DESKTOP"}
  MaxOps = 2
INVARIANTS InProgressIsUnderWay BoxesAreAwaited 
PROPERTIES NeverStartedOver
