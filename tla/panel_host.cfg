SPECIFICATION FairSpec
CONSTANTS
  MaxCrashes = 2
  Id = {1, 2}
  Name = {n1, n2}
  Password = {p1, p2}
  Request = {q1, q2}
  None = None
  MaxEvents = 2
  Task = {t1, t2}
  Path = {f1, f2}
  MaxTaskEvents = 3
  MaxLoad = 6
INVARIANT HistoryComplete
INVARIANT CachedSettingIsCurrent
INVARIANT DownloadsExist
PROPERTY PanelComesUp
PROPERTY QuotaSettles
PROPERTY CredentialsMatch
CHECK_DEADLOCK FALSE
