SPECIFICATION BindingSpec
CONSTANTS
  a = a
  b = b
  c = c
  p = p
  q = q
  x = x
  y = y
  z = z
  w = w
  gic = gic
  gpio = gpio
  NoDrv = NoDrv
  NoDev = NoDev
  NoName = NoName
  NoCtl = NoCtl
  Dev <- MCDev
  Drv <- MCDrv
  Once = {a, q}
  Own <- MCOwn
  Systems <- MCSystems
  Managed = {c}
  NameOf <- MCNameOf
  id_table <- MCIdTable
  Overrides <- MCOverrides
  Firmware <- MCFirmware
  IrqDev = w
  Ctl = {gic, gpio}
  Devices <- MCDevices
  minvec = 1
  maxvec = 2
INVARIANTS DomainsAreBalanced FailedIsGone IdEntryIsOwn GetsWhatItMay
PROPERTIES OnceIsOver FutileOnlyByCore OverrideDecides CountsTheDevice
