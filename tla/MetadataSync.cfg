CONSTANTS
  region = region
  phone = phone
  amount = amount
  gmv = gmv
  aov = aov
  NoValue = NoValue
  Columns = {region, phone, amount}
  Metrics = {gmv, aov}
  Sensitive = {phone}
  TableOf <- MCTableOf
  RawValues = {"north", " north ", " "}
  Normal <- MCNormal
  Configs <- MCConfigs
  MaxValues = 2
  BatchSize = 2
  MaxJobs = 2
  MaxChanges = 1
SPECIFICATION Spec
INVARIANTS
  TypeOK
  SyncedStores
  MetaConsistent
CHECK_DEADLOCK FALSE
