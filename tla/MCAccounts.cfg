SPECIFICATION FairSpec
CONSTANTS
  q1 = q1
  q2 = q2
  q3 = q3
  ann = ann
  bob = bob
  k1 = k1
  k2 = k2
  s1 = s1
  s2 = s2
  Old = Old
  None = None
  Requests <- MCRequests
  Mailboxes <- MCMailboxes
  Clients <- MCClients
  Subs <- MCSubs
  Scenes <- MCScenes
  MailOf <- MCMailOf
  PassUntil <- MCPassUntil
  PerClient = 1
  GlobalCap = 2
  Day = 1
  Period = 1
  LinkTTL = 1
  WelcomeTTL = 2
  SessionTTL = 1
  MaxTime = 2
  MaxFails = 1
INVARIANTS AccountsTypeOK LinkOnce QuotaInSequence AccessWasGranted
PROPERTIES OwnerKept CheckoutGrants
CHECK_DEADLOCK FALSE
