\* Four alerts, one without a URL, two threads, and as many attempts as in the code.
CONSTANTS
    Silent = {2}
    PoolSize = 2
    MaxRetries = 3
    MaxHistory = 2
    MaxAlerts = 4
SPECIFICATION DeliveryFairSpec
INVARIANT
    AlertsAccounted
PROPERTY
    AlertsFinish
