SPECIFICATION Spec
CONSTANTS
    text = text
    png = png
    dib = dib
    Writer = {w1, w2}
    Content = {text, png, dib}
    Writes = {text, png}
    Copies = {text}
    Image = {png, dib}
    Recoded <- AsDib
    Fingerprint <- AsPng
    LocalEchoRttMax = 0
    RemoteEchoRttMax = 1
    RededupWindow = 1
    ContentRecordMax = 2
    NextChangeMax = 1
    ChannelMax = 1
    FailureThreshold = 2
    CircuitOpenDuration = 1
    MaxTime = 1
    MaxWrites = 2
    MaxCopies = 1
INVARIANTS TypeOK LedgerBounded EachRecordAnswersOnce BreakerSettles
PROPERTIES EchoAttributed OnlyLiveRecordsAnswer UndisturbedCopyCaptured
SYMMETRY AnyWriter
CHECK_DEADLOCK FALSE
