SPECIFICATION Spec
CONSTANTS
  Pid = {p1, p2}
  MaxChildren = 1
  GraceTries = 1
  NoPid = NoPid
  Exe = {e1}
  NoExe = NoExe
  MaxCrashRestarts = 1
  Commands <- OneCommand
INVARIANT NoDeadPidInTable
