SPECIFICATION Spec
CONSTANTS
    Cursor = Cursor
    Main = Main
    NoWindow = NoWindow
    Screen <- MCScreen
    CursorSize <- MCCursorSize
    MainPos <- MCMainPos
    MainSize <- MCMainSize
    Border = 1
    TitleHeight = 2
    Icon = 2
    CursorZ = 100000
    Word = 64
    Packets <- MCPackets
    PacketSizes = {3, 4}
    MaxPackets = 4
    MaxLost = 1
INVARIANTS
    NoDangling
    
    StackOrder
    CursorAtMouse
    PacketsWhole
CHECK_DEADLOCK FALSE
