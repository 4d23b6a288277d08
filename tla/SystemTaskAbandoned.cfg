CONSTANTS
    r1 = r1
    r2 = r2
    k1 = k1
    k2 = k2
    Runner = {r1, r2}
    Type = {"video_storage_retry"}
    Key = {k1}
    KeyType <- KeyTypeVideo
    MaxTask = 1
    TTL = 1
    MaxLate = 1
    MaxDbErrors = 0
SPECIFICATION FairSpec
PROPERTIES AbandonedRowIsFailed
