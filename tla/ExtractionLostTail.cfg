SPECIFICATION Spec
CONSTANTS
  rom_bin = rom_bin
  rom_cue = rom_cue
  other_bin = other_bin
  rom_tmp = rom_tmp
  other_tmp = other_tmp
  Absent = Absent
  Other = Other
  Name = {rom_bin, rom_cue, other_bin}
  roms <- Roms
  Chunks <- Sizes
  TmpOf <- Tmps
  BUFFER = 2
  Faults = {"write"}
INVARIANT OkIsWhole
