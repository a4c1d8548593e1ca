SPECIFICATION WebhooksSpec
CONSTANTS
  Customer = {}
  Panel = {p1}
  Phone = {q1}
  Text <- EachItsOwn
  Fits <- EachLikeItself
  Bare = {p1}
  Requests = {r1, r2, r3}
  NoOne = NoOne
  MaxCopies = 2
  MaxFaults = 2
  MaxLapses = 1
  Contacts = {c1}
  Self = me
  Emoji = {e1, e2}
  Nothing = nothing
  Jobs = {j1, j2}
  MaxMarks = 2
  MaxMarkFaults = 1
SYMMETRY WebhooksSymmetry
INVARIANTS TypeOK ClaimsHold OneRowPerMessage AcknowledgedIsKept
           MarksTypeOK DeletionIsRecorded RowMirrorsWhatsApp
PROPERTIES DeletedStaysDeleted
CHECK_DEADLOCK FALSE
