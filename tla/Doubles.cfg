SPECIFICATION Spec
CONSTANTS
    a = a
    b = b
    d = d
    e = e
    c1 = c1
    c2 = c2
    de = de
    ma = ma
    ku = ku
    sp = sp
    t1 = t1
    t2 = t2
    r1 = r1
    r2 = r2
    Groups = {}
    NoTeacher = NoTeacher
    NoRoom = NoRoom
    Lessons = {a, b}
    Classes = {c1}
    Subjects = {de, ma}
    Teachers = {t1, t2}
    Rooms = {r1, r2}
    Slots <- DoubleSlots
    ClassesOf <- DoubleClasses
    SubjectOf <- DoubleSubjects
    Candidates <- DoubleCandidates
    TeacherPin <- DoubleTeacherPin
    Hours <- DoubleHours
    BlockSize <- DoubleBlocks
    TeacherMax <- DoubleTeacherMax
    SubjectCap <- DoubleSubjectCap
    ClassCap <- DoubleClassCap
    Suits <- DoubleSuits
    RoomClosed <- NoClosures
    TeacherAway <- DoubleAway
    PinnedRows <- NoPins
    Score <- Cost
    HomeRoom <- DoubleHome
    Breaks <- DoubleBreaks
    PreBuffer = {a}
    PostBuffer = {}
    FirstSlotOk = {a}
    RuinSize = 2
INVARIANTS
    TypeOK
    CountersMirrorRows
    ReturnedPassesValidators
    RecreateRestoresHours
    ReturnedKeepsTravelTime
CHECK_DEADLOCK FALSE
