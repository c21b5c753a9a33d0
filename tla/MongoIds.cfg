\* A document is inserted, and its id comes back in an update or a deletion.
SPECIFICATION Spec
CONSTANTS
  c1 = c1
  c2 = c2
  o1 = o1
  o2 = o2
  Calls = {c1, c2}
  Ops <- Writing
  Oids = {o1}
  Names = {}
  CustomIds = {}
  Fields = {"f"}
  Vals = {1}
INVARIANT InsertedIdIsAnId
