SPECIFICATION Spec
CONSTANTS
    Sectors = 2
    Data = {d1, d2}
    Junk = junk
    USBSTORAGE_CYCLE_RETRIES = 3
    SdRetries = 10
INVARIANT OkMeansDone
