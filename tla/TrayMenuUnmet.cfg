\* None of these holds, and TLC stops at the first: keep the line in question.
SPECIFICATION Spec
INVARIANTS
  EntryWorks
PROPERTIES
  AttemptShowsTask
