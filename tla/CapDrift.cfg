SPECIFICATION Spec
CONSTANTS
    a = a
    b = b
    d = d
    e = e
    c1 = c1
    c2 = c2
    de = de
    ma = ma
    ku = ku
    sp = sp
    t1 = t1
    t2 = t2
    r1 = r1
    r2 = r2
    Groups = {}
    NoTeacher = NoTeacher
    NoRoom = NoRoom
    Lessons = {a, b, d, e}
    Classes = {c1}
    Subjects = {de, ma, ku, sp}
    Teachers = {t1}
    Rooms = {r1}
    Slots <- DriftSlots
    ClassesOf <- DriftClasses
    SubjectOf <- DriftSubjects
    Candidates <- DriftCandidates
    TeacherPin <- DriftTeacherPin
    Hours <- DriftHours
    BlockSize <- DriftBlocks
    TeacherMax <- DriftTeacherMax
    SubjectCap <- DriftSubjectCap
    ClassCap <- DriftClassCap
    Suits <- DriftSuits
    RoomClosed <- NoClosures
    TeacherAway <- NoClosures
    PinnedRows <- NoPins
    Score <- Cost
    HomeRoom <- DriftHome
    Breaks = {}
    PreBuffer = {}
    PostBuffer = {}
    FirstSlotOk = {}
    RuinSize = 1
INVARIANTS
    ReturnedRespectsClassCaps
CHECK_DEADLOCK FALSE
