SPECIFICATION Spec
CONSTANTS
    Msgs = {t, p}
    Media = {p}
    MaxVer = 2
    Methods = {"immediate", "local_time"}
    Pinnable = {t}
    MaxPins = 2
    MaxEvents = 3
    MaxConnects = 1
INVARIANT PinsTended
PROPERTIES TextNeverFallsBack LateReceiptHarmless RevokedStaysGone FreshPinKept
CHECK_DEADLOCK FALSE
