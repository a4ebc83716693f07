\* Two processes, two addresses, two filters, one line that does not parse.
SPECIFICATION FairSpec
CONSTANTS
  Pids = {p1, p2}
  Ips = {a1}
  Valid = {v1, v2}
  Invalid = {e1}
  Blank = Blank
  MaxRows = 2
INVARIANTS
  TypeOK
  FilterSync
  DraftSync
PROPERTIES
  EditingIsModal
  OpensWhatIsSelected
  Redrawn
