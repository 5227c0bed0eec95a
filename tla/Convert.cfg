SPECIFICATION FairSpec
CONSTANTS
    None = None
    Films = {f1}
    Shapes = {"pictures", "encode"}
    Tracks = {1, 2}
    KeepOriginal = FALSE
    MaxEvents = 3
    Policy <- TheDefault
    Probe <- TheProbe
    Media <- TheMedia
    Devices <- TheDevices
INVARIANTS TypeOK PicturesAreReadFirst TheHouseCanPlayIt
PROPERTIES KeepsThePromise EverythingIsConverted
