\* Three requests of one address at a time; a captcha after one failure, a ban
\* after three.
SPECIFICATION FairSpec
CONSTANTS
    t1 = t1  t2 = t2  t3 = t3
    i1 = i1  k1 = k1
    None = None
    Tasks = {t1, t2, t3}
    Ips = {i1}
    Captchas = {k1}
    CaptchaThreshold = 1
    BanThreshold = 3
    AttemptsWindow = 2
    BanDuration = 3
    CaptchaLife = 1
INVARIANTS
    SpreeBounded
PROPERTIES
    BanIsFixed
    CaptchasAreForgotten
