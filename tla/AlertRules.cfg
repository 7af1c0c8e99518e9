\* Two rules, of which one has no database, and two cooldowns.
CONSTANTS
    Rules = {r1, r2}
    NoDatabase = {r2}
    Cooldowns = {1, 2}
    Broken = Broken
SPECIFICATION FairSpec
PROPERTIES
    OncePerCooldown
    ReportedIsLoaded
    FiresWithDatabase
