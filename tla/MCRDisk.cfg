\* Calls on the image with a crash at any write, and the commands that simulate
\* on an overlay and are killed in their commit.
SPECIFICATION RescueSpec
CONSTANTS
    Names = {dh0, dh1, dh2}
    DosTypes = {sfs, pfs}
    DriverSizes = {0, 1}
    LoCyl = 2
    HiCyl = 3
    RdbHi = 3
    MaxUpsets = 1
    Anchors <- Roots
SYMMETRY Drives
\* Drivers cannot be deleted: an area full of them allows no further call.
CHECK_DEADLOCK FALSE
INVARIANTS
    SoundUnlessTorn
    MemoryIsTheTable
    ScanFindsOnlyTheTable
PROPERTY
    ImageImplementsTable
    RescueRestores
