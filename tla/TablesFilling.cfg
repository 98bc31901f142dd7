SPECIFICATION Spec
CONSTANTS
    t1 = t1
    t2 = t2
    r1 = r1
    Name = {t1, t2}
    Rec = {r1}
    Cap <- Wide
    MaxPage = 5
    Faults = {"crash", "page_write", "extend", "fetch", "pinned"}
    Deleted = Deleted
SYMMETRY Symmetry
PROPERTIES
    TableMapOK
