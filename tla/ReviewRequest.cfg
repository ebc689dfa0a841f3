CONSTANTS
  Requests = {r1}
  Users = {u1, u2}
  Groups = {g1}
  Texts = {blank, text}
  Blank = blank
  NoRow = NoRow
  NoDraft = NoDraft
  Null = Null
SPECIFICATION Spec
CONSTRAINT NoDrift
SYMMETRY Symmetry
INVARIANTS
  TypeOK
  GroupIncomingExact
  DirectIncomingExact
  TotalIncomingExact
  OutgoingExact
  StarredExact
  CloseInfoFits
  DraftChangeDescFits
PROPERTIES
  ImplementsLifecycle
