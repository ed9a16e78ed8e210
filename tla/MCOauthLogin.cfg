\* Two requests at a time, one code and one identity, one account at the start and
\* one that registration can make.
SPECIFICATION FairSpec
CONSTANTS
  Users = {u1, n1}
  Existing = {u1}
  Idents = {i1}
  NoIdent = NoIdent
  Codes = {c1}
  Reqs = {r1, r2}
  MaxRows = 2
INVARIANTS
  TypeOK
  RegisteredOnce
  CodeYieldsOneToken
PROPERTIES
  CodesExpire
CHECK_DEADLOCK FALSE
