SPECIFICATION Spec
CONSTANTS
    seoul = seoul
    dong = dong
    landmark = landmark
    word = word
    words = words
    type = type
    kakao = kakao
    r1 = r1
    r2 = r2
    None = None
    Instances = {i1}
    Requests = {r1, r2}
    NaverKeys = {words, type}
    Fallbacks = {type}
    KakaoKeys = {kakao}
    Names = {seoul, dong, landmark, word}
    Queries = 2
    NaverTries = 2
    KakaoTries = 1
    MaxSize = 1
    Short = 1
    Long = 1
    Patience = 1
    MaxTime = 3
    Registry = {seoul, dong, landmark}
    Rank <- RankByType
    Located = {landmark}
    Words = {word}
    Seoul = seoul
    Threshold = 2
    Parts <- FewParts
SYMMETRY Interchangeable
INVARIANTS AnswersFresh RefusedCallsBounded 
CHECK_DEADLOCK FALSE
