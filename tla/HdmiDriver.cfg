SPECIFICATION Spec
CONSTANTS
  EDID_LENGTH = 1
  SENSES = 1
  POWERONS = 2
  Commands = {"o"}
  TROUBLES = 1
INVARIANTS
  NoEventLost
  InterruptsReenabled
  MaskedOnceConfigured
PROPERTIES
  PictureAppears
