CONSTANTS
  FifoSize = 2
  Trigger = 2
  Sizes = {3, 4}
  MaxBytes = 2
  MaxRead = 1
  Uses = {"read"}
SPECIFICATION UartSpec
CHECK_DEADLOCK FALSE
INVARIANT ResizeReadsBytes
