SPECIFICATION Spec
CONSTANTS
  c1 = c1
  c2 = c2
  s1 = s1
  s2 = s2
  s3 = s3
  a1 = a1
  i1 = i1
  i2 = i2
  i3 = i3
  i4 = i4
  i5 = i5
  i6 = i6
  n1 = n1
  n2 = n2
  n3 = n3
  v1 = v1
  v2 = v2
  Calls = {c1, c2}
  Subjects = {s1, s2, s3}
  Accounts = {a1}
  AccountOf <- Shared
  Ids = {i1, i2, i3, i4, i5, i6, n1, n2, n3}
  TypeOf <- EntityTypes
  Alias <- OtherName
  Existing <- Stored
  Requests <- AllRequests
  MaxCalls = 3
  Values = {v1, v2}
  NoAccount = NoAccount
  NoSubject = NoSubject
  NoId = NoId
  Blank = Blank
  Keep = Keep
  Absent = Absent
PROPERTY OmittedFieldsKept
CHECK_DEADLOCK FALSE
