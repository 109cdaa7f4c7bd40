SPECIFICATION Spec
CONSTANTS
  QUEUE_CAP = 3
  Event <- InputEvent
  KeyStroke <- MCKeyStroke
  CharCode = {30}
  Packet <- MCPacket
  UsbReport <- MCUsbReport
  MaxX = 1
  MaxY = 1
  MaxInput = 3
  MaxLost = 1
INVARIANTS TypeOK NoSpinDeadlock KeysAsTyped NoPhantomClick
PROPERTIES RingIsQueue EventsHandled
