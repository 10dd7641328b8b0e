CONSTANTS
  p1 = p1
  p2 = p2
SPECIFICATION Spec
INVARIANTS MemoryExact CopiesExact FilesExact WritesFit HeapExact ParsesAsSplit ProgramsClean GrepExact
PROPERTIES CallsIsolated InOrder
