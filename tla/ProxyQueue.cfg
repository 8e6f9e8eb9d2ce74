CONSTANTS
    Proxies = {p1, p2, p3}
    Passive = {p3}
    MaxGone = 1
SPECIFICATION FairSpec
PROPERTIES NoOvertaking UploadsResume
