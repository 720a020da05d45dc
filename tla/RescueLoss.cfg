SPECIFICATION Spec
CONSTANTS
    a = a
    b = b
    d = d
    e = e
    c1 = c1
    c2 = c2
    de = de
    ma = ma
    ku = ku
    sp = sp
    t1 = t1
    t2 = t2
    r1 = r1
    r2 = r2
    Groups = {}
    NoTeacher = NoTeacher
    NoRoom = NoRoom
    Lessons = {a, b}
    Classes = {c1}
    Subjects = {de, ma}
    Teachers = {t1, t2}
    Rooms = {r1}
    Slots <- ScarceSlots
    ClassesOf <- ScarceClasses
    SubjectOf <- ScarceSubjects
    Candidates <- ScarceCandidates
    TeacherPin <- ScarceTeacherPin
    Hours <- ScarceHours
    BlockSize <- ScarceBlocks
    TeacherMax <- ScarceTeacherMax
    SubjectCap <- ScarceSubjectCap
    ClassCap <- ScarceClassCap
    Suits <- ScarceSuits
    RoomClosed <- NoClosures
    TeacherAway <- NoClosures
    PinnedRows <- NoPins
    Score <- ScarceCost
    HomeRoom <- ScarceHome
    Breaks = {}
    PreBuffer = {}
    PostBuffer = {}
    FirstSlotOk = {}
    RuinSize = 2
INVARIANTS
    RescueGainsHours
CHECK_DEADLOCK FALSE
