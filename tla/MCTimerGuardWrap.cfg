SPECIFICATION Spec
CONSTANTS
  Nodes = {n1, n2, n3}
  Data = {d1}
  Timeouts = {0, 2}
  Wrap = 4
PROPERTY
  AllExpireInTheEnd
