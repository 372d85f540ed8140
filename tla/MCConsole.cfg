SPECIFICATION Spec
CONSTANTS
  pin = pin
  tmp = tmp
  a = a
  b = b
  crt = crt
  lpt = lpt
  NoProc = NoProc
  Mimic = Mimic
  NoDev = NoDev
  Pin = pin
  Proc <- Procs
  Con <- Screens
  Lst <- Printers
  p_cns <- Cns
  p_lst <- Lists
  Prior <- Priors
  PFlags <- FlagsOf
  Aborters = {tmp}
  Assigners = {tmp}
SYMMETRY TwoPrograms
INVARIANTS DevicesSound OutputSound
PROPERTIES Implements OwnerKeeps
