SPECIFICATION GroupSpec
CONSTANTS
    a = a
    p = p
    k = k
    c1 = c1
    c2 = c2
    de = de
    rp = rp
    rk = rk
    t1 = t1
    t2 = t2
    t3 = t3
    r1 = r1
    r2 = r2
    r3 = r3
    NoTeacher = NoTeacher
    NoRoom = NoRoom
    Lessons <- MCLessons
    Classes = {c1, c2}
    Subjects = {de, rp, rk}
    Teachers = {t1, t2, t3}
    Rooms = {r1, r2, r3}
    Slots <- MCSlots
    Breaks = {}
    ClassesOf <- MCClasses
    SubjectOf <- MCSubjects
    Candidates <- MCCandidates
    TeacherPin <- MCTeacherPin
    Hours <- MCHours
    BlockSize <- MCBlocks
    TeacherMax <- MCTeacherMax
    SubjectCap <- MCSubjectCap
    ClassCap <- MCClassCap
    Suits <- MCSuits
    RoomClosed <- NoClosures
    TeacherAway <- MCAway
    PinnedRows <- NoPins
    Groups <- MCGroups
    HomeRoom <- MCHome
    PreBuffer = {}
    PostBuffer = {}
    FirstSlotOk = {}
    Score <- Cost
    RuinSize = 1
INVARIANTS
    GroupsStayTogether
    OnlyGroupsShareSlots
    UsedMirrorsRows
    CountersMirrorRows
    LessonCounterCovers
    SplitGroupsReported
    ReturnedRespectsClassCaps
PROPERTY
    GroupRescueGainsOrRestores
CHECK_DEADLOCK FALSE
