SPECIFICATION Spec
CONSTANTS
    a = a
    b = b
    d = d
    e = e
    c1 = c1
    c2 = c2
    de = de
    ma = ma
    ku = ku
    sp = sp
    t1 = t1
    t2 = t2
    r1 = r1
    r2 = r2
    Groups = {}
    NoTeacher = NoTeacher
    NoRoom = NoRoom
    Lessons = {a, b, d, e}
    Classes = {c1, c2}
    Subjects = {de, ma, ku}
    Teachers = {t1, t2}
    Rooms = {r1, r2}
    Slots <- SingleSlots
    ClassesOf <- SingleClasses
    SubjectOf <- SingleSubjects
    Candidates <- SingleCandidates
    TeacherPin <- SingleTeacherPin
    Hours <- SingleHours
    BlockSize <- SingleBlocks
    TeacherMax <- SingleTeacherMax
    SubjectCap <- SingleSubjectCap
    ClassCap <- SingleClassCap
    Suits <- SingleSuits
    RoomClosed <- NoClosures
    TeacherAway <- NoClosures
    PinnedRows <- SinglePins
    Score <- Cost
    HomeRoom <- SingleHome
    Breaks = {}
    PreBuffer = {}
    PostBuffer = {}
    FirstSlotOk = {}
    RuinSize = 1
INVARIANTS
    NeverDoubleBooked
    UsedMirrorsRows
    CountersMirrorRows
    TeacherLocksHold
    LessonCounterCovers
    ReturnedRespectsClassCaps
    PinsNeverMove
    TeacherHoursCapped
PROPERTY
    KeepsPromise
CHECK_DEADLOCK FALSE
