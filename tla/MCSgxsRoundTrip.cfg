SPECIFICATION RoundTripSpec
CONSTANTS
    PageChunks = 2
    ChunkSize = 2
    MaxBlobOffset = 7
    MaxBlobs = 6
    Data = {0, 1}
    None = None
    MaxPages = 2
INVARIANTS Canonical PagesComplete RoundTrip MeasurementPreserved
CHECK_DEADLOCK FALSE
