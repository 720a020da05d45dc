SPECIFICATION ServiceSpec
CONSTANTS
    x = x
    y = y
    c1 = c1
    c2 = c2
    de = de
    sp = sp
    t1 = t1
    r1 = r1
    k1 = k1
    k2 = k2
    NoTeacher = NoTeacher
    NoRoom = NoRoom
    WholeSchool = WholeSchool
    Nobody = Nobody
    Requests = {k1, k2}
    EditLimit = 0
    Kept <- MCNothing
    Lessons <- MCLessons
    Classes = {c1, c2}
    Subjects = {de, sp}
    Teachers = {t1}
    Rooms = {r1}
    Slots <- MCThreeSlots
    Breaks <- NoRows
    ClassesOf <- MCApart
    SubjectOf <- MCSubjects
    Candidates <- MCCandidates
    TeacherPin <- MCTeacherPin
    Hours <- MCHours
    BlockSize <- MCBlocks
    TeacherMax <- MCTeacherMax
    SubjectCap <- MCSubjectCap
    ClassCap <- MCClassCap
    Suits <- MCSuits
    RoomClosed <- NoRows
    TeacherAway <- NoRows
    PinnedRows <- NoRows
    Groups = {}
    HomeRoom <- MCHome
    PreBuffer = {}
    PostBuffer = {}
    FirstSlotOk = {}
    Score <- NoScore
INVARIANT SiblingsStayFixed
CHECK_DEADLOCK FALSE
