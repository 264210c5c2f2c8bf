CONSTANTS
    Content <- MCContent
    Export <- MCExport
    Settings <- MCSettings
    NoOne = NoOne
    e1 = e1
    e2 = e2
    i1 = i1
    i2 = i2
    a1 = a1
    r1 = r1
    Importers = {i1, i2}
    Appenders = {a1}
    Radars = {r1}
    Source = {s1, s2}
    Fingerprint = {f1, f2}
    Forcing = {FALSE}
SPECIFICATION FairSpec
INVARIANTS TypeOK OneReferencePerSource ConflictsFailClosed AcceptedIsRecorded ReferencesHaveEvents
PROPERTIES ImportsReturn
CHECK_DEADLOCK FALSE
