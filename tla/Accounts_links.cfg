\* Three requests for links, two verifications, one handler of each other kind.
SPECIFICATION Spec
CONSTANTS
  None = None
  Emails = {ana, ben}
  LinkRequests = {l1, l2, l3}
  Verifications = {v1, v2}
  Checks = {c1}
  SignOuts = {o1}
  Saves = {s1}
  MaxLinks = 1
  MaxConcurrent = 2
  MaxFaults = 1
SYMMETRY MCSymmetry
CONSTRAINT TwoSessionCalls
INVARIANTS
  LinkSpentOnce
  ActsAsMailedAccount
  AnnouncedOnce
  CapOvershootBounded
CHECK_DEADLOCK FALSE
