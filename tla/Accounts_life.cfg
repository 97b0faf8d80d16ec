SPECIFICATION Spec
CONSTANTS
  a = a
  b = b
  c = c
  p = p
  q = q
  mail = mail
  other = other
  Users = {a, b, c}
  Emails = {mail, other}
  Identities <- MCIdentities
  Plans = {p, q}
  Requests = {r1, r2}
  MaxLinks = 1
  Batch = 1
  Scenes <- MCScenes
INVARIANTS AdminsRemain LoginMethodKept SpentLinkStops
PROPERTIES  OnlyTheirPlansGo
CHECK_DEADLOCK FALSE
SYMMETRY Symmetric
