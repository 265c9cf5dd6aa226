SPECIFICATION Spec
CONSTANTS
  Sessions = {r1, r2, r3}
  Columns = {content}
  Nobody = Nobody
  Statuses = {"archived", "draft", "contacted"}
SYMMETRY Symmetry
INVARIANTS TypeOK OneUpdatePerVersion
PROPERTIES VersionTellsChange ArchivedIsLeftKnowingly ArchivedByNameStays
CHECK_DEADLOCK FALSE
