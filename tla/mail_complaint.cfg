\* A provider event is dispatched while a delivery clears the address.
CONSTANTS
    f1 = f1  f2 = f2  r1 = r1  r2 = r2  u1 = u1  x = x  i1 = i1
    d1 = d1  d2 = d2  t1 = t1  voice1 = voice1
    NoFamily = NoFamily  NoToken = NoToken
    Families = {f1, f2}
    Requests = {r1, r2}
    ResetTokens = {reset1}
    MaxMints = 2
    MaxPasswords = 1
    Nobody = Nobody  Tombstone = Tombstone
    Accounts = {u1, u2}
    Addresses = {x, y}
    Identities = {i1}
    Callers = {c1, c2}
    Notices <- MCNotices
    Tasks = {n1, n2}
    Mails = {m1, m2}
    MaxItems = 1
    MaxRetries = 1
    MaxMessages = 2
    MaxFaults = 2
    MaxChanges = 1
    Videos = {v1, v2, v3}
    Publishers = {p1, p2}
    Materials = {file1, file2}
    Adders = {a1, a2}
    Savers = {b1, b2}
    KeepUnpublished = 1
    MaxMaterials = 1
    MaxDeaths = 1
    Conns = {k1, k2}
    MaxRuns = 2
    MaxStreamFaults = 1
    Tabs = {tab1, tab2}
    QueueMax = 1
    MaxAccessChanges = 2
    MaxHiccups = 2
    Decks = {d1, d2}
    DeckSize <- MCDeckSize
    Texts = {t1, t2}
    Voices = {voice1, voice2}
    Procs = {w1}
    MaxLaunches = 2
    MaxKills = 1
    MaxEvictions = 1
    Speakers = {s1, s2}
    SpeechTexts <- MCTexts
    Providers = {"silero", "polza", "yandex"}
    MaxChars = 4
    SpeechRetries = 1
    MaxAnswers = 2
CHECK_DEADLOCK FALSE
SPECIFICATION Spec
INVARIANTS
    ComplaintsStand
