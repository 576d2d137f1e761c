CONSTANTS
    Files <- Recordings
    InitialTime = 9
    m_readThrough = 2
    m_restartLead = 5
SPECIFICATION Spec
INVARIANTS TypeOK AnswersAgree
