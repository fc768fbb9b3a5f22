SPECIFICATION Spec
CONSTANTS
  f1 = f1
  f2 = f2
  f3 = f3
  NoFb = NoFb
  Fbs <- ThreeFbs
  Len <- TwoSize
  Bands = 2
  MaxFrames = 3
  Env = {"unplug", "usbError", "allocFail", "suspend", "close"}
INVARIANT TypeOK
INVARIANT RefsBalance
INVARIANT SafeReads
INVARIANT UnloadIsLast
INVARIANT NewestAtRest
PROPERTY MailboxSpec
PROPERTY SenderSpec
