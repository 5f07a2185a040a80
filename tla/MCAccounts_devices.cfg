\* Two devices sign up and log in with one email, under fairness.
CONSTANTS
    Devices = {d1, d2}
    Emails = {e1}
    Passwords = {p1, p2}
    None = None
SPECIFICATION FairSpec
INVARIANT TypeOK ProfilesMatchAccounts LockedOutOnlyIfInterrupted LoggedInAsOneself
PROPERTY LoadingEnds
