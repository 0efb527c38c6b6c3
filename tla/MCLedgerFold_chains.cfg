CONSTANTS
  Identity <- MCIdentity
  Key <- MCKey
  KeyOf <- MCKeyOf
  Ledger = "L"
  OtherLedger = "X"
  MaxSeq = 5
  MaxMixed = 5
  Timestamps = {1, 2}
  Subjects = {"ann"}
  Invitees = {"ann", "bob", "cat"}
  Documents = {{}, {"w"}}
SPECIFICATION Spec
CONSTRAINT Explored
CHECK_DEADLOCK FALSE
INVARIANTS
  OneOpenInvitation
    TypeOK
    ControlIsNeverLost
    KeysAreUnambiguous
    AdmissionsAreConsented
    SignedWhileController
    RecordsMatchHistory
