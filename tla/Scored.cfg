SPECIFICATION ScoredSpec
CONSTANTS
    a = a
    b = b
    e = e
    c1 = c1
    c2 = c2
    de = de
    ma = ma
    sp = sp
    t1 = t1
    t2 = t2
    r1 = r1
    r2 = r2
    Groups = {}
    NoTeacher = NoTeacher
    NoRoom = NoRoom
    Lessons <- MCLessons
    Classes = {c1, c2}
    Subjects = {de, ma, sp}
    Teachers = {t1, t2}
    Rooms = {r1, r2}
    Slots <- MCSlots
    Breaks <- MCBreaks
    ClassesOf <- MCClasses
    SubjectOf <- MCSubjects
    Candidates <- MCCandidates
    TeacherPin <- MCTeacherPin
    Hours <- MCHours
    BlockSize <- MCBlocks
    TeacherMax <- MCTeacherMax
    SubjectCap <- MCSubjectCap
    ClassCap <- MCClassCap
    Suits <- MCSuits
    RoomClosed <- MCClosed
    TeacherAway <- NoClosures
    PinnedRows <- NoPins
    HomeRoom <- MCHome
    PreBuffer = {}
    PostBuffer = {}
    FirstSlotOk = {}
    Score <- ScoreSolution
    Weight <- MCWeight
    Wish <- MCWish
    ClassTeacher <- MCClassTeacher
    Qualified <- MCQualified
    SoftPins <- MCSoftPins
    TeacherId <- MCTeacherId
    LessonId <- MCLessonId
    RuinSize = 1
    HistoryLength = 2
INVARIANTS
    PositionsMirrorRows
    CanonicalExact
    SliceExact
    ShortcutsExact
    ReportAddsUp
PROPERTY
    AcceptedIsNoDearer
CHECK_DEADLOCK FALSE
