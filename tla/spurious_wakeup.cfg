SPECIFICATION Spec
CONSTANTS
  Spurious = TRUE
  Raised = {9}
INVARIANTS SucceedIsTrue
