\* One failure of pn54x_io_set_power() is enough.
CONSTANTS
  MaxFaults = 1
  Reentrant = FALSE
SPECIFICATION Safety
PROPERTIES
  PowerStaysOn
