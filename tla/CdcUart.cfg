\* Both packets of the host at once wait in the halves and in usb_rx; what goes up is cut at
\* a packet and wraps in the circle.
SPECIFICATION Spec
CONSTANTS
  RxSize = 3
  UsbTxSize = 3
  SerialTxSize = 2
  MaxLen = 2
  MaxUp = 4
  MaxDown = 4
  MaxRestarts = 1
INVARIANTS TypeOK HalvesApart BytesInOrder TransferEnded
PROPERTIES BytesArrive HostMaySend
