\* Three devices of the recipient, one expiry, one failing write.
SPECIFICATION Spec
CONSTANTS
  r1 = r1
  r2 = r2
  r3 = r3
  caller = caller
  nobody = nobody
  Recipient <- ThreeDevices
  MaxExpiries = 1
  MaxFaults = 1
SYMMETRY Symmetry
INVARIANTS
  TypeOK
  OneDeviceTakes
  EveryoneLearnsTheEnd
CHECK_DEADLOCK FALSE
