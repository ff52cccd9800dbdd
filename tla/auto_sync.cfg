SPECIFICATION Spec
CONSTANTS
  Approval = {"a1", "a2"}
  Template = {"p1", "p2"}
  TemplateOf <- MCTemplateOf
  Delay = 1
  Overlap = 1
  Window = 2
  PageLimit = 1
  Retries = 1
  MaxTime = 2
INVARIANTS WatermarkCovers
PROPERTIES PulledInTheEnd RetriesEnd
