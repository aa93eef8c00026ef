SPECIFICATION Spec
CONSTANT Setups <- DoubleSetups
PROPERTY DoublePressInTime
