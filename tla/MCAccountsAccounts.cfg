SPECIFICATION Spec
CONSTANTS
  i1 = i1
  i2 = i2
  i3 = i3
  None = None
  Ids = {i1, i2, i3}
  Emails = {"e1", "e2"}
  StaffEmails = {"e1"}
  Passwords = {"p1", "p2"}
  Strong = {"p1", "p2"}
  Resembles <- MCResembles
  Roles = {"staff", "public"}
  StaffRole = "staff"
  PublicRole = "public"
  InitialUser <- MCInitialUser
  Edits <- MCEdits
  Workers = {w1, w2}
  MaxRequests = 4
INVARIANTS
  TypeOK
  VerifiedByOwner
  SessionsAreVerified
  AuditTells
PROPERTIES
  EditsAndLoginsMerge
  ImplementsAccountLife
SYMMETRY Alike
CHECK_DEADLOCK FALSE
