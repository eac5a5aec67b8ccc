CONSTANTS
  Sample = {0, 1}
  Asked = 1
  Cap = 2
  Wrap = 8
  Batch = {1, 2}
SPECIFICATION Spec
INVARIANTS CopiedIsQueued
PROPERTIES ImplementsQueue OldestIsTaken
