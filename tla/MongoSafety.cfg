\* Two calls of any method on a collection of up to two generated ids and one text id.
SPECIFICATION Spec
CONSTANTS
  c1 = c1
  c2 = c2
  o1 = o1
  o2 = o2
  Calls = {c1, c2}
  Ops <- Methods
  Oids = {o1, o2}
  Names = {}
  CustomIds <- LooksLikeOne
  Fields = {"f", "g"}
  Vals = {1}
INVARIANTS TypeOK EffectMatchesReply CountsExplained FindExplained FieldsKept
PROPERTY CustomIdsPermanent
