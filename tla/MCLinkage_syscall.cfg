SPECIFICATION LinkageSpec
CONSTANT MaxNesting = 1
INVARIANT SyscallReturns
CHECK_DEADLOCK FALSE
