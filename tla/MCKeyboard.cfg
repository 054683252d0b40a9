SPECIFICATION Spec
CONSTANTS
  KEY_BUFFER_SIZE = 3
  Scancodes <- MCScancodes
  NoChar = NoChar
PROPERTIES ImplementsKeyQueue BufferDrains
