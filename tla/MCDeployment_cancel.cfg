CHECK_DEADLOCK FALSE
SPECIFICATION Spec
CONSTANTS
    c1 = c1  c2 = c2  c3 = c3  c4 = c4
    b1 = b1
    d1 = d1  d2 = d2
    None = None
    DeviceOf <- MCDeviceOf
    BatchOf <- MCBatchOf
    HostRank <- MCHostRank
    Changes = {c1}
    Batches = {b1}
    ChatBatches = {b1}
    Devices = {d1}
    Configs = {k1, k2}
    Threads = {t1, t2}
    Admins = {}
    MaxCrashes = 0
    MaxDrift = 0
    MaxBaselines = 0
    MaxEvents = 0
PROPERTY CancelOnlyBeforeRun
