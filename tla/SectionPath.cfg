\* A chapter with articles and no sections between.
SPECIFICATION Spec
CONSTANTS
  Token = {"chapter", "article", "article2", "long"}
  MaxItems = 3
  MaxSize = 4
INVARIANTS SectionPathNests
CHECK_DEADLOCK FALSE
