\* The captcha switched off as config.yaml says, the ban left on.
SPECIFICATION Spec
CONSTANTS
    t1 = t1  t2 = t2  t3 = t3
    i1 = i1  k1 = k1
    None = None
    Tasks = {t1, t2}
    Ips = {i1}
    Captchas = {k1}
    CaptchaThreshold <- MCMinusOne
    BanThreshold = 3
    AttemptsWindow = 2
    BanDuration = 3
    CaptchaLife = 1
INVARIANTS
    CaptchaDisabled
