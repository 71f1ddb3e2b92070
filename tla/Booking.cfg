SPECIFICATION Spec
CONSTANTS
    Lessons = {l1, l2}
    BusySlots = {b1, b2}
    Dates = {d1}
    Times = {8, 9, 10}
    Requests = {r1, r2}
    None = None
    UniqueIndex = TRUE
SYMMETRY Symmetry
INVARIANTS
    NoLessonInBusySlot
PROPERTIES
    ImplementsCalendar
