CONSTANT ShortIntervals = {FALSE}
SPECIFICATION Spec
PROPERTY RegistersRestored
