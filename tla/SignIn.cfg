\* The first run, then one browser with a page load at a time and two tabs.
CONSTANTS
  Setups = {"a", "b"}
  Username <- UsernameMC
  Tables = {"categories", "accounts", "user_profile"}
  Seeds = {"food"}
  Legacy = {"acct"}
  TableOf <- TableOfMC
  Profile <- ProfileMC
  Clears = FALSE
  Tokens = {"t1"}
  Requests = {"q1"}
  Tabs = {"x", "y"}
  IdleDays = 1
  AbsoluteDays = 3
  CookieDays = 1
  MaxAttempts = 3
  Window = 1
  Ttl = 1
  Uses = {"setup", "pages", "tabs"}
SPECIFICATION Spec
INVARIANTS TypeOK ClaimIsWhole AnswerOnce
PROPERTIES LockoutEnds
