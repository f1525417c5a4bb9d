SPECIFICATION FairSpec
CONSTANTS
  a1 = a1
  a2 = a2
  s1 = s1
  s2 = s2
  d1 = d1
  d2 = d2
  f1 = f1
  f2 = f2
  take = take
  plan = plan
  t1 = t1
  Procs = {a1, a2}
  Senders = {s1}
  Drivers = {d1, d2}
  Firers = {f1, f2}
  Drives <- OneDriverEach
  Commands = {take, plan}
  Takes = {take}
  Timers = {t1}
  Schedules <- PlanSchedules
  Target <- TimerTarget
  Due <- TimerDue
  Seeded = {a1}
  SeedLater = {a2}
  MaxSeq = 4
  MaxSends = 2
  MaxTime = 1
  MaxCrashes = 1
  MaxTries = 2
INVARIANTS InboxNumbered ExactlyOnce TimersConserved
PROPERTIES Handled
